---- MODULE Spec2Model ----
(***************************************************************************)
(* Session adapter of the Infomaniak MCP server: the HTTP transport with   *)
(* its registry of active sessions (activeSessions), the four verbs on     *)
(* /mcp (POST, GET, DELETE) and the close callback of a session's channel. *)
(* Every handler is translated from startHttpServer; a handler that        *)
(* awaits is split at its awaits, because other handlers run while it is   *)
(* suspended.                                                              *)
(***************************************************************************)
EXTENDS Integers, FiniteSets, Sequences, TLC

\* ---------------------------------------------------------------- bounds
MaxReqs == 3          \* requests the clients send in one run
MaxIds  == 2          \* identifiers randomUUID can return in one run

Reqs == 1 .. MaxReqs
Ids  == 1 .. MaxIds

\* ------------------------------------------------------------- constants
None  == 0            \* undefined: no header, no transport, no value
Bogus == MaxIds + 1   \* a header value that randomUUID never returns

InvalidRequest == 0 - 32600
InternalError  == 0 - 32603

Bodies == {"initialize", "tools/list"}   \* the payload's method name


VARIABLES
    stateless,        \* options.stateless
    activeSessions,   \* Map<string, StreamableHTTPServerTransport>
    transports,       \* the transport objects created so far, by handle
    servers,          \* number of dispatchers created by createMcpServer
    minted,           \* identifiers randomUUID has returned so far
    reqs,             \* the requests: inputs, position in the handler, response
    disp,             \* one tools/call request: input, position, result
    proc              \* the process: its environment, position, exit status

vars ==
    <<stateless, activeSessions, transports, servers, minted, reqs, disp, proc>>

\* ------------------------------------------------------- pure operations

\* isInitializeRequest(req.body): the payload's declared method name.
isInitializeRequest(body) == body = "initialize"

\* randomUUID(): a version 4 UUID, a value it has not returned before.
\* Identifiers are interchangeable, so the least unused one stands for any.
randomUUIDRepeats(used) == Ids
randomUUID(used) == {i \in Ids \ used : \A j \in Ids \ used : i <= j}

\* activeSessions.has(sessionId), for a header that may be absent.
hasSessionAny(reg, sid) == sid # None
hasSession(reg, sid) == sid # None /\ sid \in DOMAIN reg

\* activeSessions.get(sessionId): undefined for a missing key.
getSessionOther(reg, sid) ==
    IF DOMAIN reg = {} THEN None
    ELSE reg[CHOOSE k \in DOMAIN reg : \A j \in DOMAIN reg : reg[k] >= reg[j]]
getSession(reg, sid) == IF sid \in DOMAIN reg THEN reg[sid] ELSE None

\* activeSessions.set(key, value)
sessionsSet(reg, key, value) ==
    [k \in DOMAIN reg \cup {key} |-> IF k = key THEN value ELSE reg[k]]

\* activeSessions.delete(key)
sessionsDeleteNothing(reg, key) == reg
sessionsDelete(reg, key) == [k \in DOMAIN reg \ {key} |-> reg[k]]

\* activeSessions.size, as GET /mcp/sessions reports it
sessionsCount(reg) == Cardinality(DOMAIN reg)

\* The second branch of POST /mcp: a new initialization request.
isNewInitializationAnySession(sid, body) == isInitializeRequest(body)
isNewInitialization(sid, body) == sid = None /\ isInitializeRequest(body)

\* "Store session immediately if stateful mode": the registry after the
\* initialization branch has connected the new transport.
storeSessionNever(reg, mode, id, t) == reg
storeSessionAlways(reg, mode, id, t) == sessionsSet(reg, id, t)
storeSessionClientKey(reg, mode, id, t) ==
    IF ~mode THEN sessionsSet(reg, Bogus, t) ELSE reg
storeSession(reg, mode, id, t) ==
    IF ~mode THEN sessionsSet(reg, id, t) ELSE reg

\* new StreamableHTTPServerTransport({sessionIdGenerator: () => id})
newTransport(id, srv) ==
    [sessionIdGenerator |-> id, server |-> srv, onclose |-> None,
     closed |-> FALSE]

\* transport.onclose = () => { activeSessions.delete(newSessionId) }:
\* the registry after the callback of transport t has run.
fireOncloseClears(reg, ts, t) == <<>>
fireOnclose(reg, ts, t) ==
    IF t \in DOMAIN ts /\ ts[t].onclose # None
    THEN sessionsDelete(reg, ts[t].onclose)
    ELSE reg

\* transport.close(): the channel is released.
closeTransport(ts, t) ==
    IF t \in DOMAIN ts THEN [ts EXCEPT ![t].closed = TRUE] ELSE ts

\* --------------------------------------------------------------- requests

\* The mcp-session-id header of a request: absent, an identifier the server
\* has generated, or any other string.
HeaderIds == minted \cup {Bogus, None}

IdleReq ==
    [pc |-> "idle", method |-> "POST", sid |-> None, body |-> "initialize",
     transport |-> None, newSessionId |-> None,
     status |-> 0, code |-> 0, message |-> "", respSid |-> None]

\* Requests arrive in the order of their numbers.
Arrives(r) ==
    /\ reqs[r].pc = "idle"
    /\ \A q \in Reqs : q < r => reqs[q].pc # "idle"

\* No tools/call request has been received.
\* name, args: request.params; validations: the calls of validate;
\* validated: what validate returned; invoked: the client methods called;
\* outbound: the calls of fetch; response: what fetch resolved with;
\* text, isError: the result of the handler (isError FALSE: not set);
\* threw: the handler rejected instead of returning a result.
IdleDisp ==
    [pc |-> "idle", name |-> "", args |-> <<>>, validations |-> 0,
     validated |-> <<>>, invoked |-> <<>>, outbound |-> <<>>,
     response |-> <<>>, text |-> "", isError |-> FALSE, threw |-> FALSE]

\* The process has started with INFOMANIAK_API_TOKEN set and serves.
RunningProc ==
    [pc |-> "running", token |-> [t |-> "string", v |-> "secret-token"],
     client |-> TRUE, transport |-> TRUE, exitCode |-> None, stderr |-> <<>>]

Init ==
    /\ disp = IdleDisp
    /\ proc = RunningProc
    /\ stateless \in BOOLEAN
    /\ activeSessions = <<>>
    /\ transports = <<>>
    /\ servers = 0
    /\ minted = {}
    /\ reqs = [r \in Reqs |-> IdleReq]

\* ------------------------------------------------------------- POST /mcp

\* The handler up to its first await.
PostMcp(r, sid, body) ==
    /\ Arrives(r)
    /\ LET arrived == [reqs[r] EXCEPT !.method = "POST", !.sid = sid,
                                      !.body = body]
       IN
       IF hasSession(activeSessions, sid)
       THEN \* reuse the existing session; handleRequest is called
            /\ reqs' = [reqs EXCEPT ![r] =
                   [arrived EXCEPT !.pc = "handling",
                                   !.transport = getSession(activeSessions, sid)]]
            /\ UNCHANGED <<proc, disp, stateless, activeSessions, transports, servers, minted>>
       ELSE IF isNewInitialization(sid, body)
       THEN \* new transport and server; suspended in server.connect
            \E id \in randomUUID(minted) :
              LET t == Len(transports) + 1 IN
              /\ minted' = minted \cup {id}
              /\ servers' = servers + 1
              /\ transports' = Append(transports, newTransport(id, servers + 1))
              /\ reqs' = [reqs EXCEPT ![r] =
                     [arrived EXCEPT !.pc = "connecting", !.transport = t,
                                     !.newSessionId = id]]
              /\ UNCHANGED <<proc, disp, stateless, activeSessions>>
       ELSE \* invalid request
            /\ reqs' = [reqs EXCEPT ![r] =
                   [arrived EXCEPT !.pc = "done", !.status = 400,
                       !.code = InvalidRequest,
                       !.message = "Invalid request: No session ID provided and not an initialization request"]]
            /\ UNCHANGED <<proc, disp, stateless, activeSessions, transports, servers, minted>>

\* server.connect(transport) has resolved: the session is stored in
\* stateful mode, then handleRequest is called.
PostConnected(r) ==
    /\ reqs[r].pc = "connecting"
    /\ LET id == reqs[r].newSessionId
           t  == reqs[r].transport
       IN
       /\ activeSessions' = storeSession(activeSessions, stateless, id, t)
       /\ transports' = IF ~stateless
                        THEN [transports EXCEPT ![t].onclose = id]
                        ELSE transports
       /\ reqs' = [reqs EXCEPT ![r].pc = "handling"]
    /\ UNCHANGED <<proc, disp, stateless, servers, minted>>

\* server.connect(transport) has rejected: the handler ends there, no
\* session is stored and the handler writes no response.
PostConnectFails(r) ==
    /\ reqs[r].pc = "connecting"
    /\ reqs' = [reqs EXCEPT ![r].pc = "done"]
    /\ UNCHANGED <<proc, disp, stateless, activeSessions, transports, servers, minted>>

\* ---------------------------------------------------------------- GET /mcp

GetMcp(r, sid) ==
    /\ Arrives(r)
    /\ LET arrived == [reqs[r] EXCEPT !.method = "GET", !.sid = sid,
                                      !.body = "tools/list"]
       IN
       IF ~hasSession(activeSessions, sid)
       THEN reqs' = [reqs EXCEPT ![r] =
                [arrived EXCEPT !.pc = "done", !.status = 400,
                    !.code = InvalidRequest,
                    !.message = "Invalid request: Session not found"]]
       ELSE reqs' = [reqs EXCEPT ![r] =
                [arrived EXCEPT !.pc = "handling",
                                !.transport = getSession(activeSessions, sid)]]
    /\ UNCHANGED <<proc, disp, stateless, activeSessions, transports, servers, minted>>

\* --------------------------------------- transport.handleRequest settles

\* The mcp-session-id header of the response a transport writes: the value
\* of its sessionIdGenerator.
transportHeader(ts, t) ==
    IF t \in DOMAIN ts THEN ts[t].sessionIdGenerator ELSE None

\* handleRequest resolves: the transport has written the response.
HandleReturns(r) ==
    /\ reqs[r].pc = "handling"
    /\ reqs' = [reqs EXCEPT ![r] =
           [reqs[r] EXCEPT !.pc = "done", !.status = 200,
               !.respSid = transportHeader(transports, reqs[r].transport)]]
    /\ UNCHANGED <<proc, disp, stateless, activeSessions, transports, servers, minted>>

\* handleRequest rejects: the handler answers 500 unless the transport
\* had already sent the response headers.
HandleThrowsDropsSession(r, headersSent) ==
    /\ reqs[r].pc = "handling"
    /\ reqs' = [reqs EXCEPT ![r] =
           [reqs[r] EXCEPT !.pc = "done", !.status = 500,
                            !.code = InternalError, !.message = "error"]]
    /\ activeSessions' =
           sessionsDelete(activeSessions,
                          transports[reqs[r].transport].sessionIdGenerator)
    /\ UNCHANGED <<proc, disp, stateless, transports, servers, minted>>
HandleThrows(r, headersSent) ==
    /\ reqs[r].pc = "handling"
    /\ reqs' = [reqs EXCEPT ![r] =
           IF ~headersSent
           THEN [reqs[r] EXCEPT !.pc = "done", !.status = 500,
                                !.code = InternalError, !.message = "error"]
           ELSE [reqs[r] EXCEPT !.pc = "done", !.status = 200,
                    !.message = "error",
                    !.respSid = transportHeader(transports, reqs[r].transport)]]
    /\ UNCHANGED <<proc, disp, stateless, activeSessions, transports, servers, minted>>

\* ------------------------------------------------------------- DELETE /mcp

DeleteMcp(r, sid) ==
    /\ Arrives(r)
    /\ LET arrived == [reqs[r] EXCEPT !.method = "DELETE", !.sid = sid,
                                      !.body = "tools/list"]
       IN
       IF sid = None
       THEN /\ reqs' = [reqs EXCEPT ![r] =
                   [arrived EXCEPT !.pc = "done", !.status = 400,
                       !.code = InvalidRequest,
                       !.message = "Invalid request: No session ID provided"]]
            /\ UNCHANGED <<activeSessions, transports>>
       ELSE IF hasSession(activeSessions, sid)
       THEN LET t == getSession(activeSessions, sid) IN
            \* transport.close() runs the close callback, then the
            \* handler deletes the key itself
            /\ transports' = closeTransport(transports, t)
            /\ activeSessions' =
                   sessionsDelete(fireOnclose(activeSessions, transports, t), sid)
            /\ reqs' = [reqs EXCEPT ![r] =
                   [arrived EXCEPT !.pc = "done", !.status = 200,
                                   !.message = "Session terminated"]]
       ELSE /\ reqs' = [reqs EXCEPT ![r] =
                   [arrived EXCEPT !.pc = "done", !.status = 404,
                       !.code = InvalidRequest,
                       !.message = "Session not found"]]
            /\ UNCHANGED <<activeSessions, transports>>
    /\ UNCHANGED <<proc, disp, stateless, servers, minted>>

\* ------------------------------------------------- the channel closes

\* The channel of a session closes by itself; its onclose callback runs.
TransportCloses(t) ==
    /\ t \in DOMAIN transports
    /\ ~transports[t].closed
    /\ transports[t].onclose # None
    /\ transports' = closeTransport(transports, t)
    /\ activeSessions' = fireOnclose(activeSessions, transports, t)
    /\ UNCHANGED <<proc, disp, stateless, servers, minted, reqs>>

\* ------------------------------------------------------------------ Next

Next ==
    \/ \E r \in Reqs, sid \in HeaderIds, body \in Bodies : PostMcp(r, sid, body)
    \/ \E r \in Reqs : PostConnected(r)
    \/ \E r \in Reqs : PostConnectFails(r)
    \/ \E r \in Reqs, sid \in HeaderIds : GetMcp(r, sid)
    \/ \E r \in Reqs : HandleReturns(r)
    \/ \E r \in Reqs, headersSent \in BOOLEAN : HandleThrows(r, headersSent)
    \/ \E r \in Reqs, sid \in HeaderIds : DeleteMcp(r, sid)
    \/ \E t \in DOMAIN transports : TransportCloses(t)

Spec == Init /\ [][Next]_vars

\* ================================================================ claims

\* Request r arrives in this step.
ArrivesNow(r) == reqs[r].pc = "idle" /\ reqs'[r].pc # "idle"

\* Request r was handed to a channel.
Routed(r) == reqs[r].transport # None

\* The initialization requests that got past the creation of their channel.
Initializations == {r \in Reqs : reqs[r].newSessionId # None}

\* C1: in stateful mode a POST without session header whose body is an
\* initialize request creates a new channel bound to a new dispatcher and
\* mints a fresh identifier; once the channel is connected the identifier is
\* registered with that channel and the registry has grown by one; the
\* response the channel writes carries the identifier in its header.
C1_InitializeRegisters ==
    /\ [][\A r \in Reqs :
            /\ ( /\ ~stateless /\ ArrivesNow(r)
                 /\ reqs'[r].method = "POST" /\ reqs'[r].sid = None
                 /\ isInitializeRequest(reqs'[r].body) )
               => /\ reqs'[r].pc = "connecting"
                  /\ reqs'[r].newSessionId \in Ids \ minted
                  /\ reqs'[r].transport \in DOMAIN transports' \ DOMAIN transports
                  /\ transports'[reqs'[r].transport].sessionIdGenerator
                         = reqs'[r].newSessionId
                  /\ \A t \in DOMAIN transports :
                         transports[t].server
                             # transports'[reqs'[r].transport].server
            /\ ( ~stateless /\ reqs[r].pc = "connecting"
                            /\ reqs'[r].pc = "handling" )
               => /\ reqs[r].newSessionId \notin DOMAIN activeSessions
                  /\ DOMAIN activeSessions'
                         = DOMAIN activeSessions \cup {reqs[r].newSessionId}
                  /\ activeSessions'[reqs[r].newSessionId] = reqs[r].transport
                  /\ sessionsCount(activeSessions')
                         = sessionsCount(activeSessions) + 1
         ]_vars
    /\ [](\A r \in Initializations :
            (~stateless /\ reqs[r].pc = "done" /\ reqs[r].status = 200)
               => reqs[r].respSid = reqs[r].newSessionId)

C1_Witness ==
    \E r \in Initializations :
        /\ ~stateless
        /\ reqs[r].pc = "done" /\ reqs[r].status = 200
        /\ reqs[r].respSid = reqs[r].newSessionId
        /\ reqs[r].newSessionId \in DOMAIN activeSessions
        /\ activeSessions[reqs[r].newSessionId] = reqs[r].transport
        /\ sessionsCount(activeSessions) = 1

\* C2: in stateful mode two initialization requests get two distinct
\* identifiers (and two distinct channels), and a request bearing an
\* identifier that was handed to a channel was handed to the channel of the
\* initialization that minted the identifier, never to another one.
C2_DistinctSessionsRouteApart ==
    ~stateless =>
        /\ \A p, q \in Initializations :
              p # q => /\ reqs[p].newSessionId # reqs[q].newSessionId
                       /\ reqs[p].transport # reqs[q].transport
        /\ \A r \in Reqs :
              (reqs[r].sid # None /\ Routed(r))
                 => /\ \E q \in Initializations :
                          /\ reqs[q].newSessionId = reqs[r].sid
                          /\ reqs[q].transport = reqs[r].transport
                    /\ \A q \in Initializations :
                          reqs[q].newSessionId # reqs[r].sid
                             => reqs[q].transport # reqs[r].transport

C2_Witness ==
    \E p, q \in Initializations, r \in Reqs :
        /\ ~stateless /\ p # q /\ r > p /\ r > q
        /\ reqs[p].newSessionId # reqs[q].newSessionId
        /\ reqs[r].sid = reqs[p].newSessionId
        /\ reqs[r].transport = reqs[p].transport
        /\ reqs[p].newSessionId \in DOMAIN activeSessions
        /\ reqs[q].newSessionId \in DOMAIN activeSessions
        /\ reqs[r].pc = "done" /\ reqs[r].status = 200

Terminated ==
    {reqs[q].sid : q \in {x \in Reqs : /\ reqs[x].pc = "done"
                                       /\ reqs[x].method = "DELETE"
                                       /\ reqs[x].status = 200}}

\* C4: a DELETE for a registered identifier closes the session's channel
\* and removes the identifier; a terminated identifier is never a key of the
\* registry again, and every request that arrives later with it is rejected
\* (400 for POST and GET, 404 for DELETE) without reaching a channel.
C4_TerminatedStaysOut ==
    /\ [][\A r \in Reqs :
            /\ ( /\ ArrivesNow(r) /\ reqs'[r].method = "DELETE"
                 /\ reqs'[r].sid \in DOMAIN activeSessions )
               => /\ transports'[activeSessions[reqs'[r].sid]].closed
                  /\ reqs'[r].sid \notin DOMAIN activeSessions'
                  /\ reqs'[r].status = 200
                  /\ reqs'[r].message = "Session terminated"
            /\ (ArrivesNow(r) /\ reqs'[r].sid \in Terminated)
               => /\ reqs'[r].pc = "done"
                  /\ reqs'[r].transport = None
                  /\ reqs'[r].status =
                         IF reqs'[r].method = "DELETE" THEN 404 ELSE 400
         ]_vars
    /\ [](\A id \in Terminated : id \notin DOMAIN activeSessions)

C4_Witness ==
    \E d, p \in Reqs :
        /\ reqs[d].method = "DELETE" /\ reqs[d].status = 200
        /\ reqs[d].sid \in minted
        /\ transports[1].closed
        /\ p > d /\ reqs[p].method = "POST" /\ reqs[p].sid = reqs[d].sid
        /\ reqs[p].pc = "done" /\ reqs[p].status = 400
        /\ reqs[p].transport = None

\* C5: a DELETE whose identifier is not a key of the registry is answered
\* 404 "Session not found", a DELETE without identifier is answered 400; in
\* both cases the registry is unchanged and no channel is closed.
C5_DeleteUnknownLeavesRegistry ==
    [][\A r \in Reqs :
          (ArrivesNow(r) /\ reqs'[r].method = "DELETE")
          => /\ ( /\ reqs'[r].sid # None
                  /\ reqs'[r].sid \notin DOMAIN activeSessions )
                => /\ reqs'[r].status = 404
                   /\ reqs'[r].message = "Session not found"
                   /\ UNCHANGED <<activeSessions, transports>>
             /\ reqs'[r].sid = None
                => /\ reqs'[r].status = 400
                   /\ reqs'[r].code = InvalidRequest
                   /\ UNCHANGED <<activeSessions, transports>>
      ]_vars

C5_Witness ==
    \E p, q \in Reqs :
        /\ sessionsCount(activeSessions) = 1
        /\ reqs[p].method = "DELETE" /\ reqs[p].sid = Bogus
        /\ reqs[p].status = 404
        /\ reqs[q].method = "DELETE" /\ reqs[q].sid = None
        /\ reqs[q].status = 400

\* The identifiers the server has returned in a response header.
Returned ==
    {reqs[q].respSid : q \in {x \in Reqs : /\ reqs[x].pc = "done"
                                           /\ reqs[x].respSid # None}}

\* C6: in stateless mode a request that arrives with an identifier the
\* server returned earlier is rejected without reaching a channel, and no
\* request bearing an identifier is ever handed to a channel.
C6_StatelessAcceptsNoIdentifier ==
    /\ [][\A r \in Reqs :
            (stateless /\ ArrivesNow(r) /\ reqs'[r].sid \in Returned)
            => /\ reqs'[r].pc = "done"
               /\ reqs'[r].transport = None
               /\ reqs'[r].status =
                      IF reqs'[r].method = "DELETE" THEN 404 ELSE 400
         ]_vars
    /\ [](stateless => \A r \in Reqs : reqs[r].sid # None => ~Routed(r))

C6_Witness ==
    \E q \in Initializations, r \in Reqs :
        /\ stateless /\ r > q
        /\ reqs[q].pc = "done" /\ reqs[q].respSid = reqs[q].newSessionId
        /\ reqs[r].sid = reqs[q].respSid
        /\ reqs[r].method = "POST" /\ reqs[r].body = "initialize"
        /\ reqs[r].pc = "done" /\ reqs[r].status = 400

\* C7: in stateless mode every POST, initialize request or not, gets a new
\* channel and dispatcher of its own and is handled on it, and the registry
\* stays empty. Stated for the requests that bear no session identifier.
C7_StatelessBootstrapsEveryPost ==
    stateless =>
        /\ DOMAIN activeSessions = {}
        /\ \A r \in Reqs :
              ( /\ reqs[r].pc # "idle" /\ reqs[r].method = "POST"
                /\ reqs[r].sid = None )
                 => /\ reqs[r].newSessionId # None
                    /\ Routed(r)
                    /\ \A q \in Reqs \ {r} :
                          reqs[q].transport # reqs[r].transport

\* C8: a GET with a registered identifier is handed to the channel
\* registered under it; a GET with a missing or unregistered identifier is
\* answered 400 with code -32600, creates no session and leaves the registry
\* unchanged.
C8_EventStreamRouting ==
    [][\A r \in Reqs :
          (ArrivesNow(r) /\ reqs'[r].method = "GET")
          => /\ UNCHANGED <<activeSessions, transports, servers, minted>>
             /\ IF reqs'[r].sid \in DOMAIN activeSessions
                THEN /\ reqs'[r].pc = "handling"
                     /\ reqs'[r].transport = activeSessions[reqs'[r].sid]
                ELSE /\ reqs'[r].pc = "done"
                     /\ reqs'[r].transport = None
                     /\ reqs'[r].status = 400
                     /\ reqs'[r].code = InvalidRequest
      ]_vars

C8_Witness ==
    \E i \in Initializations, g, h \in Reqs :
        /\ reqs[g].method = "GET" /\ reqs[g].sid = reqs[i].newSessionId
        /\ reqs[g].pc = "handling"
        /\ reqs[g].transport = reqs[i].transport
        /\ reqs[h].method = "GET" /\ reqs[h].sid \in {None, Bogus}
        /\ reqs[h].pc = "done" /\ reqs[h].status = 400
        /\ sessionsCount(activeSessions) = 1

\* The requests being handled on channel t.
Handling(t) == {r \in Reqs : reqs[r].pc = "handling" /\ reqs[r].transport = t}

\* The session a request belongs to: the one it created or the one it bears.
SessionOf(r) ==
    IF reqs[r].newSessionId # None THEN reqs[r].newSessionId ELSE reqs[r].sid

\* C9 as stated: at most one request is being handled on any one channel.
C9_OneRequestPerChannel ==
    \A t \in DOMAIN transports : Cardinality(Handling(t)) <= 1

\* C9 as amended: the adapter does not serialize the requests of a session,
\* several can be in flight on its channel at once, but all the requests in
\* flight on one channel belong to that channel's session: each bears the
\* identifier the channel was created with, or is the initialization that
\* created it.
C9_ChannelHandlesOnlyItsSession ==
    \A t \in DOMAIN transports : \A r \in Handling(t) :
        /\ SessionOf(r) = transports[t].sessionIdGenerator
        /\ reqs[r].newSessionId = None
              => \E q \in Initializations :
                    /\ reqs[q].transport = t
                    /\ reqs[q].newSessionId = reqs[r].sid

C9_Witness ==
    \E t \in DOMAIN transports : \E p, q \in Handling(t) :
        /\ p # q
        /\ reqs[p].sid = reqs[q].sid /\ reqs[p].sid \in DOMAIN activeSessions
        /\ activeSessions[reqs[p].sid] = t

\* C10: a registration never replaces an entry: the identifier being
\* registered is not a key of the registry at that moment, and an entry
\* that stays in the registry keeps its channel.
C10_RegistrationNeverOverwrites ==
    [][/\ \A r \in Reqs :
             (reqs[r].pc = "connecting" /\ reqs'[r].pc = "handling"
                 /\ activeSessions' # activeSessions)
             => reqs[r].newSessionId \notin DOMAIN activeSessions
       /\ \A id \in DOMAIN activeSessions \cap DOMAIN activeSessions' :
             activeSessions'[id] = activeSessions[id]
      ]_vars

C10_Witness ==
    \E p, q \in Initializations :
        /\ p # q
        /\ {reqs[p].newSessionId, reqs[q].newSessionId}
               \subseteq DOMAIN activeSessions
        /\ activeSessions[reqs[p].newSessionId] = reqs[p].transport
        /\ activeSessions[reqs[q].newSessionId] = reqs[q].transport
        /\ reqs[p].transport # reqs[q].transport
        /\ reqs[p].pc = "handling" /\ reqs[q].pc = "handling"

\* C11: when the channel of a session closes and its onclose callback runs,
\* exactly that session's identifier leaves the registry; every other entry
\* stays, with its own channel, and that channel is not closed.
C11_CloseRemovesOnlyItsSession ==
    [][\A t \in DOMAIN transports :
          (~transports[t].closed /\ transports'[t].closed
              /\ transports[t].onclose # None)
          => /\ DOMAIN activeSessions'
                    = DOMAIN activeSessions \ {transports[t].onclose}
             /\ \A id \in DOMAIN activeSessions' :
                    /\ activeSessions'[id] = activeSessions[id]
                    /\ activeSessions'[id] # t
                    /\ transports'[activeSessions'[id]].closed
                           = transports[activeSessions[id]].closed
      ]_vars

C11_Witness ==
    \E p, q \in Initializations, r \in Reqs :
        /\ p # q /\ r > p /\ r > q
        /\ \A x \in Reqs : reqs[x].method # "DELETE"
        /\ transports[reqs[p].transport].closed
        /\ reqs[p].newSessionId \notin DOMAIN activeSessions
        /\ reqs[q].newSessionId \in DOMAIN activeSessions
        /\ activeSessions[reqs[q].newSessionId] = reqs[q].transport
        /\ ~transports[reqs[q].transport].closed
        /\ reqs[r].sid = reqs[q].newSessionId
        /\ reqs[r].transport = reqs[q].transport
        /\ reqs[r].pc = "done" /\ reqs[r].status = 200

\* ====================================================== schema registry

\* Values of an argument bag: undefined (the key is absent), a number, a
\* string or an object.
Absent == [t |-> "undefined", v |-> 0]
Num(n) == [t |-> "number", v |-> n]
Str(x) == [t |-> "string", v |-> x]
Obj(x) == [t |-> "object", v |-> x]

\* A field of a z.object: its key, its zod type, whether it is .optional(),
\* its required_error ("" when none is given), the options of an enum and
\* its checks in the order they are chained.
Field(name, kind, optional, requiredError, options, checks) ==
    [name |-> name, kind |-> kind, optional |-> optional,
     requiredError |-> requiredError, options |-> options, checks |-> checks]

\* The checks; msg is the custom message, "" when none is given.
PositiveOrZero(msg) == [c |-> "min", arg |-> 0, msg |-> msg]
Positive(msg) == [c |-> "positive", arg |-> 0, msg |-> msg]
Min(n) == [c |-> "min", arg |-> n, msg |-> ""]
MaxOffByOne(n) == [c |-> "max", arg |-> n + 1, msg |-> ""]
Max(n) == [c |-> "max", arg |-> n, msg |-> ""]
MinLen(n, msg) == [c |-> "minlen", arg |-> n, msg |-> msg]
Email(msg) == [c |-> "email", arg |-> 0, msg |-> msg]
StartsWith(msg) == [c |-> "startsWith", arg |-> 0, msg |-> msg]

NumberField(name, requiredError, checks) ==
    Field(name, "number", FALSE, requiredError, <<>>, checks)
StringField(name, requiredError, checks) ==
    Field(name, "string", FALSE, requiredError, <<>>, checks)
Optional(f) == [f EXCEPT !.optional = TRUE]

DnsRecordTypes == <<"A", "AAAA", "CNAME", "MX", "TXT", "NS", "SRV", "CAA">>
DnsRecordTypeSchema(name) == Field(name, "enum", FALSE, "", DnsRecordTypes, <<>>)

HttpMethods == <<"GET", "POST", "PUT", "PATCH", "DELETE">>

TtlMin == 60
TtlMax == 86400
PriorityMin == 0
PriorityMax == 65535
PasswordMinLen == 8

Ttl == Optional(NumberField("ttl", "", <<Min(TtlMin), Max(TtlMax)>>))
Priority ==
    Optional(NumberField("priority", "", <<Min(PriorityMin), Max(PriorityMax)>>))

\* z.number().positive() without messages, as most secondary ids are.
PlainId(name) == NumberField(name, "", <<Positive("")>>)
\* z.number({required_error: '<name> is required'}).positive()
NamedId(name) == NumberField(name, name \o " is required", <<Positive("")>>)

AccountIdSchema ==
    << NumberField("account_id", "account_id is required",
                   <<Positive("account_id must be positive")>>) >>
DomainNameSchema ==
    << StringField("domain", "domain is required",
                   <<MinLen(1, "domain cannot be empty")>>) >>
ListDnsRecordsSchema == DomainNameSchema
CreateDnsRecordSchema ==
    << StringField("domain", "", <<MinLen(1, "domain is required")>>),
       StringField("source", "source is required", <<>>),
       DnsRecordTypeSchema("type"),
       StringField("target", "target is required",
                   <<MinLen(1, "target cannot be empty")>>),
       Ttl, Priority >>
UpdateDnsRecordSchema ==
    << StringField("domain", "", <<MinLen(1, "domain is required")>>),
       NamedId("record_id"),
       Optional(StringField("source", "", <<>>)),
       Optional(DnsRecordTypeSchema("type")),
       Optional(StringField("target", "", <<MinLen(1, "")>>)),
       Ttl, Priority >>
DeleteDnsRecordSchema ==
    << StringField("domain", "", <<MinLen(1, "domain is required")>>),
       NamedId("record_id") >>
GetDomainSchema ==
    << PlainId("account_id"), StringField("domain", "", <<MinLen(1, "")>>) >>
MailIdSchema == << NamedId("mail_id") >>
MailboxIdSchema == << PlainId("mail_id"), NamedId("mailbox_id") >>
CreateMailboxSchema ==
    << PlainId("mail_id"),
       StringField("mailbox_name", "mailbox_name is required",
                   <<MinLen(1, "mailbox_name cannot be empty")>>),
       StringField("password", "password is required",
           <<MinLen(PasswordMinLen, "password must be at least 8 characters")>>),
       Optional(PlainId("max_size")) >>
UpdateMailboxSchema ==
    << PlainId("mail_id"), PlainId("mailbox_id"),
       Optional(StringField("password", "", <<MinLen(PasswordMinLen, "")>>)),
       Optional(PlainId("max_size")) >>
DeleteMailboxSchema == MailboxIdSchema
MailboxAliasSchema ==
    << PlainId("mail_id"), PlainId("mailbox_id"),
       StringField("alias", "alias is required",
                   <<Email("alias must be a valid email")>>) >>
HostingIdSchema == << NamedId("hosting_id") >>
SiteIdSchema == << PlainId("hosting_id"), NamedId("site_id") >>
CreateSiteSchema ==
    << PlainId("hosting_id"),
       StringField("fqdn", "fqdn is required",
                   <<MinLen(1, "fqdn cannot be empty")>>),
       Optional(StringField("path", "", <<>>)),
       Optional(StringField("php_version", "", <<>>)) >>
UpdateSiteSchema ==
    << PlainId("hosting_id"), PlainId("site_id"),
       Optional(StringField("path", "", <<>>)),
       Optional(StringField("php_version", "", <<>>)) >>
DeleteSiteSchema == SiteIdSchema
DatabaseIdSchema == << PlainId("hosting_id"), NamedId("database_id") >>
CreateDatabaseSchema ==
    << PlainId("hosting_id"),
       StringField("name", "name is required",
                   <<MinLen(1, "database name cannot be empty")>>),
       Optional(StringField("charset", "", <<>>)) >>
DeleteDatabaseSchema == DatabaseIdSchema
DriveIdSchema == << NamedId("drive_id") >>
BackupIdSchema == << NamedId("backup_id") >>
VpsIdSchema == << NamedId("vps_id") >>
ServerIdSchema == << NamedId("server_id") >>
CertificateIdSchema == << NamedId("certificate_id") >>
InvoiceIdSchema == << PlainId("account_id"), NamedId("invoice_id") >>
ApiCallSchema ==
    << Field("method", "enum", FALSE, "", HttpMethods, <<>>),
       StringField("endpoint", "endpoint is required",
                   <<StartsWith("endpoint must start with /")>>),
       Optional(Field("body", "record", FALSE, "", <<>>, <<>>)),
       Optional(Field("query_params", "recordOfScalars", FALSE, "", <<>>, <<>>)) >>

\* The pool of strings the checks below are decided on.
EmailShaped == {"alias@example.com"}      \* match the email pattern
SlashFirst == {"/1/ping", "/1/profile"}  \* start with "/"

\* The keys of a record whose value is not a string or a number (booleans
\* are not among the values tried).
nonScalarKeys(o) == {k \in DOMAIN o : o[k].t \notin {"string", "number"}}

\* obj[key], undefined when the key is absent.
Get(obj, key) == IF key \in DOMAIN obj THEN obj[key] ELSE Absent

\* 'A' | 'AAAA' | ... as zod prints the options of an enum.
RECURSIVE JoinOptions(_)
JoinOptions(opts) ==
    IF opts = <<>> THEN ""
    ELSE IF Len(opts) = 1 THEN "'" \o opts[1] \o "'"
    ELSE "'" \o opts[1] \o "' | " \o JoinOptions(Tail(opts))

InSeq(x, seq) == \E i \in 1 .. Len(seq) : seq[i] = x

\* One check of a number or string schema on a value of the right type.
checkPasses(c, v) ==
    CASE c.c = "positive"   -> v.v > 0
      [] c.c = "min"        -> v.v >= c.arg
      [] c.c = "max"        -> v.v <= c.arg
      [] c.c = "minlen"     -> Len(v.v) >= c.arg
      [] c.c = "email"      -> v.v \in EmailShaped
      [] c.c = "startsWith" -> v.v \in SlashFirst

\* The message of a failed check: the custom one, else zod's default.
checkMessage(c) ==
    IF c.msg # "" THEN c.msg
    ELSE CASE c.c = "positive" -> "Number must be greater than 0"
           [] c.c = "min" ->
                "Number must be greater than or equal to " \o ToString(c.arg)
           [] c.c = "max" ->
                "Number must be less than or equal to " \o ToString(c.arg)
           [] c.c = "minlen" ->
                "String must contain at least " \o ToString(c.arg)
                    \o " character(s)"
           [] c.c = "email" -> "Invalid email"
           [] c.c = "startsWith" -> "Invalid input: must start with \"/\""

\* The issues of the checks of a field, in the order of the checks.
RECURSIVE checkIssues(_, _, _)
checkIssues(name, checks, v) ==
    IF checks = <<>> THEN <<>>
    ELSE (IF checkPasses(Head(checks), v) THEN <<>>
          ELSE << [path |-> name, message |-> checkMessage(Head(checks))] >>)
         \o checkIssues(name, Tail(checks), v)

\* The issue zod raises for a missing required key.
requiredIssue(f) ==
    [path |-> f.name,
     message |-> IF f.requiredError # "" THEN f.requiredError ELSE "Required"]

\* The issues of one field of the object for the value v of its key.
fieldIssues(f, v) ==
    IF v = Absent
    THEN IF f.optional THEN <<>> ELSE << requiredIssue(f) >>
    ELSE CASE f.kind = "number" ->
                IF v.t # "number"
                THEN << [path |-> f.name,
                         message |-> "Expected number, received " \o v.t] >>
                ELSE checkIssues(f.name, f.checks, v)
           [] f.kind = "string" ->
                IF v.t # "string"
                THEN << [path |-> f.name,
                         message |-> "Expected string, received " \o v.t] >>
                ELSE checkIssues(f.name, f.checks, v)
           [] f.kind = "enum" ->
                IF v.t # "string"
                THEN << [path |-> f.name,
                         message |-> "Expected " \o JoinOptions(f.options)
                                        \o ", received " \o v.t] >>
                ELSE IF InSeq(v.v, f.options) THEN <<>>
                ELSE << [path |-> f.name,
                         message |-> "Invalid enum value. Expected "
                                        \o JoinOptions(f.options)
                                        \o ", received '" \o v.v \o "'"] >>
           [] f.kind = "record" ->
                IF v.t # "object"
                THEN << [path |-> f.name,
                         message |-> "Expected object, received " \o v.t] >>
                ELSE <<>>
           [] f.kind = "recordOfScalars" ->
                IF v.t # "object"
                THEN << [path |-> f.name,
                         message |-> "Expected object, received " \o v.t] >>
                ELSE IF nonScalarKeys(v.v) = {} THEN <<>>
                ELSE << [path |-> f.name \o "."
                                     \o (CHOOSE k \in nonScalarKeys(v.v) : TRUE),
                         message |-> "Invalid input"] >>

\* result.error.errors of schema.safeParse(data): the issues of all the
\* fields, in the order the schema declares the fields.
RECURSIVE objectIssues(_, _)
objectIssues(schema, data) ==
    IF schema = <<>> THEN <<>>
    ELSE fieldIssues(Head(schema), Get(data, Head(schema).name))
         \o objectIssues(Tail(schema), data)

\* The keys the schema declares.
fieldNames(schema) == {schema[i].name : i \in 1 .. Len(schema)}

\* result.data: the declared keys that are present; zod strips the others.
parsedDataPassthrough(schema, data) ==
    [k \in {x \in DOMAIN data : data[x] # Absent} |-> data[k]]
parsedDataDefaulting(schema, data) ==
    [k \in fieldNames(schema) |->
        IF Get(data, k) = Absent THEN Num(0) ELSE data[k]]
parsedData(schema, data) ==
    [k \in {x \in fieldNames(schema) : Get(data, x) # Absent} |-> data[k]]

\* errors.map(e => `${e.path.join('.')}: ${e.message}`).join(', ')
RECURSIVE joinErrors(_)
joinErrorsFirstOnly(issues) == issues[1].path \o ": " \o issues[1].message
joinErrors(issues) ==
    IF Len(issues) = 1 THEN issues[1].path \o ": " \o issues[1].message
    ELSE issues[1].path \o ": " \o issues[1].message \o ", "
             \o joinErrors(Tail(issues))

\* args of a tools/call request without arguments.
Undefined == <<>>

\* schema.safeParse(data).error.errors; data that is no object has one
\* issue with the empty path.
safeParseIssues(schema, data) ==
    IF data = Undefined THEN << [path |-> "", message |-> "Required"] >>
    ELSE objectIssues(schema, data)

\* validate(schema, data): the data, or the Error it throws.
validate(schema, data) ==
    LET issues == safeParseIssues(schema, data) IN
    IF issues # <<>>
    THEN [ok |-> FALSE, data |-> <<>>,
          message |-> "Validation error: " \o joinErrors(issues)]
    ELSE [ok |-> TRUE, data |-> parsedData(schema, data), message |-> ""]

\* ================================================================ gateway

BaseUrl == "https://api.infomaniak.com"

\* `${x}` and String(x): a number in decimal, a string as it is.
Interpolate(x) ==
    CASE x.t = "number" -> ToString(x.v)
      [] x.t = "string" -> x.v
      [] x.t = "undefined" -> "undefined"
      [] OTHER -> "[object Object]"

\* encodeURIComponent on the strings that reach it: "@" is escaped, the
\* letters, digits and dots of the other strings are not.
encodeURIComponent(x) ==
    IF x.v = "alias@example.com" THEN "alias%40example.com" ELSE x.v

\* The object literal { k: validated.k, ... }: every key is set, to
\* undefined when the validated data has no such key.
PickDefaulting(v, keys) ==
    Obj([k \in keys |-> IF Get(v, k) = Absent THEN Num(0) ELSE v[k]])
Pick(v, keys) == Obj([k \in keys |-> Get(v, k)])

\* JSON.stringify(body): the properties whose value is undefined are
\* left out of the text; the text is kept as the members it lists.
JSONstringifyBody(body) ==
    [t |-> "json",
     v |-> [k \in {x \in DOMAIN body.v : body.v[x] # Absent} |-> body.v[k]]]

\* params.toString() of the URLSearchParams filled from queryParams,
\* undefined values skipped.
RECURSIVE joinParams(_, _)
joinParams(o, keys) ==
    IF keys = {} THEN ""
    ELSE LET k    == CHOOSE x \in keys : TRUE
             rest == joinParams(o, keys \ {k})
         IN k \o "=" \o Interpolate(o[k])
              \o (IF rest = "" THEN "" ELSE "&" \o rest)
queryString(queryParams) ==
    joinParams(queryParams.v,
               {k \in DOMAIN queryParams.v : queryParams.v[k] # Absent})

BodyMethods == {"POST", "PUT", "PATCH"}

\* request(method, path, body, queryParams) up to its call of fetch: the
\* url and the options it passes.
request(method, path, body, queryParams) ==
    [method |-> method,
     url |-> BaseUrl \o path
               \o (IF queryParams # Absent /\ queryString(queryParams) # ""
                   THEN "?" \o queryString(queryParams) ELSE ""),
     body |-> IF body # Absent /\ method \in BodyMethods
              THEN JSONstringifyBody(body) ELSE Absent]

\* The methods of InfomaniakClient the dispatcher calls: each builds one
\* request from the values v it is given.
clientCall(method, v) ==
    CASE method = "ping" ->
             request("GET", "/1/ping",
                     Absent, Absent)
      [] method = "getProfile" ->
             request("GET", "/1/profile",
                     Absent, Absent)
      [] method = "getAccounts" ->
             request("GET", "/1/account",
                     Absent, Absent)
      [] method = "getAccount" ->
             request("GET", "/1/account/" \o Interpolate(Get(v, "account_id")),
                     Absent, Absent)
      [] method = "getAccountProducts" ->
             request("GET", "/1/account/" \o Interpolate(Get(v, "account_id")) \o "/product",
                     Absent, Absent)
      [] method = "getDomains" ->
             request("GET", "/1/domain/account/" \o Interpolate(Get(v, "account_id")),
                     Absent, Absent)
      [] method = "getDomain" ->
             request("GET", "/1/domain/account/" \o Interpolate(Get(v, "account_id")) \o "/domain/" \o Interpolate(Get(v, "domain")),
                     Absent, Absent)
      [] method = "getDnsRecords" ->
             request("GET", "/1/domain/" \o Interpolate(Get(v, "domain")) \o "/dns/record",
                     Absent, Absent)
      [] method = "createDnsRecord" ->
             request("POST", "/1/domain/" \o Interpolate(Get(v, "domain")) \o "/dns/record",
                     Pick(v, {"source", "type", "target", "ttl", "priority"}), Absent)
      [] method = "updateDnsRecord" ->
             request("PUT", "/1/domain/" \o Interpolate(Get(v, "domain")) \o "/dns/record/" \o Interpolate(Get(v, "record_id")),
                     Pick(v, {"source", "type", "target", "ttl", "priority"}), Absent)
      [] method = "deleteDnsRecord" ->
             request("DELETE", "/1/domain/" \o Interpolate(Get(v, "domain")) \o "/dns/record/" \o Interpolate(Get(v, "record_id")),
                     Absent, Absent)
      [] method = "getMailServices" ->
             request("GET", "/1/mail",
                     Absent, Obj([account_id |-> Get(v, "account_id")]))
      [] method = "getMailService" ->
             request("GET", "/1/mail/" \o Interpolate(Get(v, "mail_id")),
                     Absent, Absent)
      [] method = "getMailboxes" ->
             request("GET", "/1/mail/" \o Interpolate(Get(v, "mail_id")) \o "/mailbox",
                     Absent, Absent)
      [] method = "getMailbox" ->
             request("GET", "/1/mail/" \o Interpolate(Get(v, "mail_id")) \o "/mailbox/" \o Interpolate(Get(v, "mailbox_id")),
                     Absent, Absent)
      [] method = "createMailbox" ->
             request("POST", "/1/mail/" \o Interpolate(Get(v, "mail_id")) \o "/mailbox",
                     Pick(v, {"mailbox_name", "password", "max_size"}), Absent)
      [] method = "updateMailbox" ->
             request("PUT", "/1/mail/" \o Interpolate(Get(v, "mail_id")) \o "/mailbox/" \o Interpolate(Get(v, "mailbox_id")),
                     Pick(v, {"password", "max_size"}), Absent)
      [] method = "deleteMailbox" ->
             request("DELETE", "/1/mail/" \o Interpolate(Get(v, "mail_id")) \o "/mailbox/" \o Interpolate(Get(v, "mailbox_id")),
                     Absent, Absent)
      [] method = "addMailboxAlias" ->
             request("POST", "/1/mail/" \o Interpolate(Get(v, "mail_id")) \o "/mailbox/" \o Interpolate(Get(v, "mailbox_id")) \o "/alias",
                     Obj([alias |-> Get(v, "alias")]), Absent)
      [] method = "deleteMailboxAlias" ->
             request("DELETE", "/1/mail/" \o Interpolate(Get(v, "mail_id")) \o "/mailbox/" \o Interpolate(Get(v, "mailbox_id")) \o "/alias/" \o encodeURIComponent(Get(v, "alias")),
                     Absent, Absent)
      [] method = "getWebHostings" ->
             request("GET", "/1/web",
                     Absent, Obj([account_id |-> Get(v, "account_id")]))
      [] method = "getWebHosting" ->
             request("GET", "/1/web/" \o Interpolate(Get(v, "hosting_id")),
                     Absent, Absent)
      [] method = "getSites" ->
             request("GET", "/1/web/" \o Interpolate(Get(v, "hosting_id")) \o "/site",
                     Absent, Absent)
      [] method = "getSite" ->
             request("GET", "/1/web/" \o Interpolate(Get(v, "hosting_id")) \o "/site/" \o Interpolate(Get(v, "site_id")),
                     Absent, Absent)
      [] method = "createSite" ->
             request("POST", "/1/web/" \o Interpolate(Get(v, "hosting_id")) \o "/site",
                     Pick(v, {"fqdn", "path", "php_version"}), Absent)
      [] method = "updateSite" ->
             request("PUT", "/1/web/" \o Interpolate(Get(v, "hosting_id")) \o "/site/" \o Interpolate(Get(v, "site_id")),
                     Pick(v, {"path", "php_version"}), Absent)
      [] method = "deleteSite" ->
             request("DELETE", "/1/web/" \o Interpolate(Get(v, "hosting_id")) \o "/site/" \o Interpolate(Get(v, "site_id")),
                     Absent, Absent)
      [] method = "getDatabases" ->
             request("GET", "/1/web/" \o Interpolate(Get(v, "hosting_id")) \o "/database",
                     Absent, Absent)
      [] method = "getDatabase" ->
             request("GET", "/1/web/" \o Interpolate(Get(v, "hosting_id")) \o "/database/" \o Interpolate(Get(v, "database_id")),
                     Absent, Absent)
      [] method = "createDatabase" ->
             request("POST", "/1/web/" \o Interpolate(Get(v, "hosting_id")) \o "/database",
                     Pick(v, {"name", "charset"}), Absent)
      [] method = "deleteDatabase" ->
             request("DELETE", "/1/web/" \o Interpolate(Get(v, "hosting_id")) \o "/database/" \o Interpolate(Get(v, "database_id")),
                     Absent, Absent)
      [] method = "getKDrives" ->
             request("GET", "/2/drive",
                     Absent, Obj([account_id |-> Get(v, "account_id")]))
      [] method = "getKDrive" ->
             request("GET", "/2/drive/" \o Interpolate(Get(v, "drive_id")),
                     Absent, Absent)
      [] method = "getSwissBackups" ->
             request("GET", "/1/swiss_backup",
                     Absent, Obj([account_id |-> Get(v, "account_id")]))
      [] method = "getSwissBackup" ->
             request("GET", "/1/swiss_backup/" \o Interpolate(Get(v, "backup_id")),
                     Absent, Absent)
      [] method = "getSwissBackupSlots" ->
             request("GET", "/1/swiss_backup/" \o Interpolate(Get(v, "backup_id")) \o "/slot",
                     Absent, Absent)
      [] method = "getVpsList" ->
             request("GET", "/1/vps",
                     Absent, Absent)
      [] method = "getVps" ->
             request("GET", "/1/vps/" \o Interpolate(Get(v, "vps_id")),
                     Absent, Absent)
      [] method = "rebootVps" ->
             request("POST", "/1/vps/" \o Interpolate(Get(v, "vps_id")) \o "/reboot",
                     Absent, Absent)
      [] method = "shutdownVps" ->
             request("POST", "/1/vps/" \o Interpolate(Get(v, "vps_id")) \o "/shutdown",
                     Absent, Absent)
      [] method = "bootVps" ->
             request("POST", "/1/vps/" \o Interpolate(Get(v, "vps_id")) \o "/boot",
                     Absent, Absent)
      [] method = "getDedicatedServers" ->
             request("GET", "/1/dedicated",
                     Absent, Absent)
      [] method = "getDedicatedServer" ->
             request("GET", "/1/dedicated/" \o Interpolate(Get(v, "server_id")),
                     Absent, Absent)
      [] method = "rebootDedicatedServer" ->
             request("POST", "/1/dedicated/" \o Interpolate(Get(v, "server_id")) \o "/reboot",
                     Absent, Absent)
      [] method = "getCertificates" ->
             request("GET", "/1/certificate",
                     Absent, Obj([account_id |-> Get(v, "account_id")]))
      [] method = "getCertificate" ->
             request("GET", "/1/certificate/" \o Interpolate(Get(v, "certificate_id")),
                     Absent, Absent)
      [] method = "getInvoices" ->
             request("GET", "/1/invoicing/" \o Interpolate(Get(v, "account_id")) \o "/invoice/list",
                     Absent, Absent)
      [] method = "getInvoice" ->
             request("GET", "/1/invoicing/" \o Interpolate(Get(v, "account_id")) \o "/invoice/" \o Interpolate(Get(v, "invoice_id")),
                     Absent, Absent)
      [] method = "call" ->
             request(Get(v, "method").v, Get(v, "endpoint").v,
                     Get(v, "body"), Get(v, "query_params"))

\* ============================================================= dispatcher

\* The tools array: the name of each tool and the required list of its
\* inputSchema, in the order of the array.
Tool(name, required) == [name |-> name, required |-> required]
tools ==
    << Tool("infomaniak_ping",
            {}),
       Tool("infomaniak_get_profile",
            {}),
       Tool("infomaniak_list_accounts",
            {}),
       Tool("infomaniak_get_account",
            {"account_id"}),
       Tool("infomaniak_list_products",
            {"account_id"}),
       Tool("infomaniak_list_domains",
            {"account_id"}),
       Tool("infomaniak_get_domain",
            {"account_id", "domain"}),
       Tool("infomaniak_list_dns_records",
            {"domain"}),
       Tool("infomaniak_create_dns_record",
            {"domain", "source", "type", "target"}),
       Tool("infomaniak_update_dns_record",
            {"domain", "record_id"}),
       Tool("infomaniak_delete_dns_record",
            {"domain", "record_id"}),
       Tool("infomaniak_list_mail_services",
            {"account_id"}),
       Tool("infomaniak_get_mail_service",
            {"mail_id"}),
       Tool("infomaniak_list_mailboxes",
            {"mail_id"}),
       Tool("infomaniak_get_mailbox",
            {"mail_id", "mailbox_id"}),
       Tool("infomaniak_create_mailbox",
            {"mail_id", "mailbox_name", "password"}),
       Tool("infomaniak_update_mailbox",
            {"mail_id", "mailbox_id"}),
       Tool("infomaniak_delete_mailbox",
            {"mail_id", "mailbox_id"}),
       Tool("infomaniak_add_mailbox_alias",
            {"mail_id", "mailbox_id", "alias"}),
       Tool("infomaniak_delete_mailbox_alias",
            {"mail_id", "mailbox_id", "alias"}),
       Tool("infomaniak_list_web_hostings",
            {"account_id"}),
       Tool("infomaniak_get_web_hosting",
            {"hosting_id"}),
       Tool("infomaniak_list_sites",
            {"hosting_id"}),
       Tool("infomaniak_get_site",
            {"hosting_id", "site_id"}),
       Tool("infomaniak_create_site",
            {"hosting_id", "fqdn"}),
       Tool("infomaniak_update_site",
            {"hosting_id", "site_id"}),
       Tool("infomaniak_delete_site",
            {"hosting_id", "site_id"}),
       Tool("infomaniak_list_databases",
            {"hosting_id"}),
       Tool("infomaniak_get_database",
            {"hosting_id", "database_id"}),
       Tool("infomaniak_create_database",
            {"hosting_id", "name"}),
       Tool("infomaniak_delete_database",
            {"hosting_id", "database_id"}),
       Tool("infomaniak_list_kdrives",
            {"account_id"}),
       Tool("infomaniak_get_kdrive",
            {"drive_id"}),
       Tool("infomaniak_list_swiss_backups",
            {"account_id"}),
       Tool("infomaniak_get_swiss_backup",
            {"backup_id"}),
       Tool("infomaniak_list_swiss_backup_slots",
            {"backup_id"}),
       Tool("infomaniak_list_vps",
            {}),
       Tool("infomaniak_get_vps",
            {"vps_id"}),
       Tool("infomaniak_reboot_vps",
            {"vps_id"}),
       Tool("infomaniak_shutdown_vps",
            {"vps_id"}),
       Tool("infomaniak_boot_vps",
            {"vps_id"}),
       Tool("infomaniak_list_dedicated_servers",
            {}),
       Tool("infomaniak_get_dedicated_server",
            {"server_id"}),
       Tool("infomaniak_reboot_dedicated_server",
            {"server_id"}),
       Tool("infomaniak_list_certificates",
            {"account_id"}),
       Tool("infomaniak_get_certificate",
            {"certificate_id"}),
       Tool("infomaniak_list_invoices",
            {"account_id"}),
       Tool("infomaniak_get_invoice",
            {"account_id", "invoice_id"}),
       Tool("infomaniak_api_call",
            {"method", "endpoint"}) >>

\* The switch of handleToolCall, one entry per case label in the order of
\* the source: the schema the case validates args with (none for the
\* cases without arguments) and the client method it calls.
Case(name, schema, method) ==
    [name |-> name, known |-> TRUE, validates |-> TRUE, schema |-> schema,
     method |-> method]
CaseNoArgs(name, method) ==
    [name |-> name, known |-> TRUE, validates |-> FALSE, schema |-> <<>>,
     method |-> method]
cases ==
    << CaseNoArgs("infomaniak_ping",
            "ping"),
       CaseNoArgs("infomaniak_get_profile",
            "getProfile"),
       CaseNoArgs("infomaniak_list_accounts",
            "getAccounts"),
       Case("infomaniak_get_account",
            AccountIdSchema, "getAccount"),
       Case("infomaniak_list_products",
            AccountIdSchema, "getAccountProducts"),
       Case("infomaniak_list_domains",
            AccountIdSchema, "getDomains"),
       Case("infomaniak_get_domain",
            GetDomainSchema, "getDomain"),
       Case("infomaniak_list_dns_records",
            ListDnsRecordsSchema, "getDnsRecords"),
       Case("infomaniak_create_dns_record",
            CreateDnsRecordSchema, "createDnsRecord"),
       Case("infomaniak_update_dns_record",
            UpdateDnsRecordSchema, "updateDnsRecord"),
       Case("infomaniak_delete_dns_record",
            DeleteDnsRecordSchema, "deleteDnsRecord"),
       Case("infomaniak_list_mail_services",
            AccountIdSchema, "getMailServices"),
       Case("infomaniak_get_mail_service",
            MailIdSchema, "getMailService"),
       Case("infomaniak_list_mailboxes",
            MailIdSchema, "getMailboxes"),
       Case("infomaniak_get_mailbox",
            MailboxIdSchema, "getMailbox"),
       Case("infomaniak_create_mailbox",
            CreateMailboxSchema, "createMailbox"),
       Case("infomaniak_update_mailbox",
            UpdateMailboxSchema, "updateMailbox"),
       Case("infomaniak_delete_mailbox",
            DeleteMailboxSchema, "deleteMailbox"),
       Case("infomaniak_add_mailbox_alias",
            MailboxAliasSchema, "addMailboxAlias"),
       Case("infomaniak_delete_mailbox_alias",
            MailboxAliasSchema, "deleteMailboxAlias"),
       Case("infomaniak_list_web_hostings",
            AccountIdSchema, "getWebHostings"),
       Case("infomaniak_get_web_hosting",
            HostingIdSchema, "getWebHosting"),
       Case("infomaniak_list_sites",
            HostingIdSchema, "getSites"),
       Case("infomaniak_get_site",
            SiteIdSchema, "getSite"),
       Case("infomaniak_create_site",
            CreateSiteSchema, "createSite"),
       Case("infomaniak_update_site",
            UpdateSiteSchema, "updateSite"),
       Case("infomaniak_delete_site",
            DeleteSiteSchema, "deleteSite"),
       Case("infomaniak_list_databases",
            HostingIdSchema, "getDatabases"),
       Case("infomaniak_get_database",
            DatabaseIdSchema, "getDatabase"),
       Case("infomaniak_create_database",
            CreateDatabaseSchema, "createDatabase"),
       Case("infomaniak_delete_database",
            DeleteDatabaseSchema, "deleteDatabase"),
       Case("infomaniak_list_kdrives",
            AccountIdSchema, "getKDrives"),
       Case("infomaniak_get_kdrive",
            DriveIdSchema, "getKDrive"),
       Case("infomaniak_list_swiss_backups",
            AccountIdSchema, "getSwissBackups"),
       Case("infomaniak_get_swiss_backup",
            BackupIdSchema, "getSwissBackup"),
       Case("infomaniak_list_swiss_backup_slots",
            BackupIdSchema, "getSwissBackupSlots"),
       CaseNoArgs("infomaniak_list_vps",
            "getVpsList"),
       Case("infomaniak_get_vps",
            VpsIdSchema, "getVps"),
       Case("infomaniak_reboot_vps",
            VpsIdSchema, "rebootVps"),
       Case("infomaniak_shutdown_vps",
            VpsIdSchema, "shutdownVps"),
       Case("infomaniak_boot_vps",
            VpsIdSchema, "bootVps"),
       CaseNoArgs("infomaniak_list_dedicated_servers",
            "getDedicatedServers"),
       Case("infomaniak_get_dedicated_server",
            ServerIdSchema, "getDedicatedServer"),
       Case("infomaniak_reboot_dedicated_server",
            ServerIdSchema, "rebootDedicatedServer"),
       Case("infomaniak_list_certificates",
            AccountIdSchema, "getCertificates"),
       Case("infomaniak_get_certificate",
            CertificateIdSchema, "getCertificate"),
       Case("infomaniak_list_invoices",
            AccountIdSchema, "getInvoices"),
       Case("infomaniak_get_invoice",
            InvoiceIdSchema, "getInvoice"),
       Case("infomaniak_api_call",
            ApiCallSchema, "call") >>

\* default: throw new Error(`Unknown tool: ${name}`)
DefaultCaseBestEffort ==
    [name |-> "", known |-> TRUE, validates |-> FALSE, schema |-> <<>>,
     method |-> "ping"]
DefaultCase ==
    [name |-> "", known |-> FALSE, validates |-> FALSE, schema |-> <<>>,
     method |-> ""]

\* The case the switch takes for a name.
toolCaseFirstLabel(name) ==
    IF \E i \in 1 .. Len(cases) : cases[i].name = name
    THEN cases[1] ELSE DefaultCase
toolCase(name) ==
    IF \E i \in 1 .. Len(cases) : cases[i].name = name
    THEN cases[CHOOSE i \in 1 .. Len(cases) : cases[i].name = name]
    ELSE DefaultCase

\* handleToolCall(client, name, args) up to the await of fetch: the Error
\* it throws, or the client method it calls and the request that builds.
Throws(message, validations) ==
    [throws |-> TRUE, message |-> message, validations |-> validations,
     validated |-> <<>>, invoked |-> <<>>, request |-> <<>>]
Calls(method, validations, validated) ==
    [throws |-> FALSE, message |-> "", validations |-> validations,
     validated |-> validated, invoked |-> <<method>>,
     request |-> clientCall(method, validated)]

handleToolCall(name, args) ==
    LET c == toolCase(name) IN
    IF ~c.known THEN Throws("Unknown tool: " \o name, 0)
    ELSE IF ~c.validates THEN Calls(c.method, 0, <<>>)
    ELSE LET r == validate(c.schema, args) IN
         IF ~r.ok THEN Throws(r.message, 1)
         ELSE Calls(c.method, 1, r.data)

\* await fetch(url, options): one more call of fetch.
fetchTwice(outbound, req) == outbound \o <<req, req>>
fetch(outbound, req) == Append(outbound, req)

\* ---------------------------------------------------------------- responses

\* What the remote API answers: a status and the text of the body.
Response(status, text) == [status |-> status, text |-> text]
Responses ==
    { Response(200, "{\"result\":\"success\"}"),
      Response(200, "{}"),
      Response(204, ""),
      Response(404, "{\"error\":{\"description\":\"Not found\"}}"),
      Response(400, "{\"error\":{\"description\":\"bad thing\"}}"),
      Response(500, "{\"message\":\"boom\"}"),
      Response(502, "Bad Gateway"),
      Response(400, "{}") }

\* The reasons fetch rejects with.
NetworkErrors == {"fetch failed"}

\* response.ok
ok(response) == response.status >= 200 /\ response.status <= 299

\* JSON.parse on the texts above: the members of the object in their
\* order, or the SyntaxError.
JSONparse(text) ==
    CASE text = "{\"result\":\"success\"}" ->
             [ok |-> TRUE, value |-> << <<"result", Str("success")>> >>]
      [] text = "{}" -> [ok |-> TRUE, value |-> <<>>]
      [] text = "{\"error\":{\"description\":\"Not found\"}}" ->
             [ok |-> TRUE,
              value |-> << <<"error",
                             Obj(<< <<"description", Str("Not found")>> >>)>> >>]
      [] text = "{\"error\":{\"description\":\"bad thing\"}}" ->
             [ok |-> TRUE,
              value |-> << <<"error",
                             Obj(<< <<"description", Str("bad thing")>> >>)>> >>]
      [] text = "{\"message\":\"boom\"}" ->
             [ok |-> TRUE, value |-> << <<"message", Str("boom")>> >>]
      [] text = "" ->
             [ok |-> FALSE, message |-> "Unexpected end of JSON input"]
      [] OTHER ->
             [ok |-> FALSE, message |-> "Unexpected token in JSON"]

\* o.key, undefined when o has no such member.
member(o, key) ==
    IF \E i \in 1 .. Len(o) : o[i][1] = key
    THEN o[CHOOSE i \in 1 .. Len(o) : o[i][1] = key][2]
    ELSE Absent

truthy(x) == x # Absent /\ x # Str("") /\ x # Num(0)

\* errorJson.error?.description || errorJson.message || errorText, and
\* errorText when the text is no JSON.
errorMessageOfRawText(errorText) == errorText
errorMessageOf(errorText) ==
    LET j == JSONparse(errorText) IN
    IF ~j.ok THEN errorText
    ELSE LET e == member(j.value, "error")
             d == IF e.t = "object" THEN member(e.v, "description") ELSE Absent
             m == member(j.value, "message")
         IN IF truthy(d) THEN d.v
            ELSE IF truthy(m) THEN m.v
            ELSE errorText

\* request() after fetch has resolved with the response: the Error it
\* throws or the data it returns.
afterFetch(response) ==
    IF ~ok(response)
    THEN [throws |-> TRUE, data |-> <<>>,
          message |-> "Infomaniak API Error (" \o ToString(response.status)
                          \o "): " \o errorMessageOf(response.text)]
    ELSE LET j == JSONparse(response.text) IN
         IF j.ok THEN [throws |-> FALSE, data |-> j.value, message |-> ""]
         ELSE [throws |-> TRUE, data |-> <<>>, message |-> j.message]

\* JSON.stringify(result, null, 2) of an object of strings and numbers.
scalarText(x) ==
    IF x.t = "string" THEN "\"" \o x.v \o "\"" ELSE Interpolate(x)
RECURSIVE memberLines(_)
memberLines(o) ==
    IF o = <<>> THEN ""
    ELSE "  \"" \o o[1][1] \o "\": " \o scalarText(o[1][2])
             \o (IF Len(o) > 1 THEN ",\n" \o memberLines(Tail(o)) ELSE "")
JSONstringify(result) ==
    IF result = <<>> THEN "{}" ELSE "{\n" \o memberLines(result) \o "\n}"

\* The try branch of the CallToolRequestSchema handler: return { content }.
handlerReturn(d, result) ==
    [d EXCEPT !.pc = "done", !.text = JSONstringify(result),
              !.isError = FALSE]

\* The catch branch: the text `Error: ${errorMessage}` with isError: true.
handlerCatchRethrows(d, errorMessage) ==
    [d EXCEPT !.pc = "done", !.threw = TRUE]
handlerCatchGeneric(d, errorMessage) ==
    [d EXCEPT !.pc = "done", !.text = "Error: Invalid arguments",
              !.isError = TRUE]
handlerCatch(d, errorMessage) ==
    [d EXCEPT !.pc = "done", !.text = "Error: " \o errorMessage,
              !.isError = TRUE]

\* ------------------------------------------------------------------ inputs

MaxVaried == 2        \* arguments of one call that differ from a valid call

\* A name the tools array does not hold.
UnknownName == "infomaniak_format_disk"
ToolNames == {tools[i].name : i \in 1 .. Len(tools)} \cup {UnknownName}

\* A value the field accepts.
goodString(name) ==
    CASE name = "domain"   -> "example.com"
      [] name = "source"   -> "www"
      [] name = "target"   -> "1.2.3.4"
      [] name = "password" -> "12345678"
      [] name = "alias"    -> "alias@example.com"
      [] name = "endpoint" -> "/1/ping"
      [] OTHER             -> "x"
baseline(f) ==
    IF f.optional THEN Absent
    ELSE CASE f.kind = "number" -> Num(1)
           [] f.kind = "string" -> Str(goodString(f.name))
           [] f.kind = "enum"   -> Str(f.options[1])
           [] OTHER             -> Obj(<<>>)

\* The values tried for a field: absent, of the wrong type, and on both
\* sides of each of its checks.
checkEdges(c) ==
    CASE c.c = "positive" -> {Num(0 - 1), Num(0), Num(1)}
      [] c.c = "min"      -> {Num(c.arg - 1), Num(c.arg)}
      [] c.c = "max"      -> {Num(c.arg), Num(c.arg + 1)}
      [] c.c = "minlen"   ->
           IF c.arg = 1 THEN {Str("")} ELSE {Str("1234567"), Str("12345678")}
      [] c.c = "email"      -> {Str("alias@example.com"), Str("not-an-email")}
      [] c.c = "startsWith" -> {Str("/1/ping"), Str("1/ping")}
candidates(f) ==
    {Absent}
    \cup UNION {checkEdges(f.checks[i]) : i \in 1 .. Len(f.checks)}
    \cup CASE f.kind = "number" -> {Num(1), Str("5")}
           [] f.kind = "string" -> {Str(goodString(f.name)), Num(5)}
           [] f.kind = "enum"   ->
                {Str(f.options[1]), Str(f.options[2]), Str("BOGUS"), Num(5)}
           [] f.kind = "record" ->
                {Obj(<<>>), Obj([limit |-> Num(10)]),
                 Obj([filter |-> Obj(<<>>)]), Str("x")}
           [] f.kind = "recordOfScalars" ->
                {Obj(<<>>), Obj([limit |-> Num(10)]),
                 Obj([filter |-> Obj(<<>>)]), Str("x")}

\* The object o with key k set to v.
With(o, k, v) == [x \in DOMAIN o \cup {k} |-> IF x = k THEN v ELSE o[x]]

\* The objects over the fields of a schema in which at most budget fields
\* differ from the valid call with the optional fields absent.
RECURSIVE bagsOf(_, _)
bagsOf(schema, budget) ==
    IF schema = <<>> THEN {<<>>}
    ELSE LET f == Head(schema) IN
         {With(b, f.name, baseline(f)) : b \in bagsOf(Tail(schema), budget)}
         \cup (IF budget = 0 THEN {}
               ELSE {With(b, f.name, v) :
                        b \in bagsOf(Tail(schema), budget - 1),
                        v \in candidates(f) \ {baseline(f)}})

\* A field no schema declares.
ExtraKey == "extra"
ExtraValues == {Absent, Str("EVIL")}

\* request.params.arguments for a call of the tool: undefined, or an
\* object with or without the undeclared field.
ArgBags(name) ==
    {Undefined}
    \cup {With(b, ExtraKey, e) :
             b \in bagsOf(toolCase(name).schema, MaxVaried),
             e \in ExtraValues}

\* ----------------------------------------------------------------- actions

sessionVars == <<stateless, activeSessions, transports, servers, minted, reqs>>

\* The CallToolRequestSchema handler from the request to the await of
\* fetch, or to its result when handleToolCall throws before.
CallTool(name, args) ==
    /\ disp.pc = "idle"
    /\ LET h == handleToolCall(name, args)
           called == [disp EXCEPT !.name = name, !.args = args,
                                  !.validations = h.validations,
                                  !.validated = h.validated,
                                  !.invoked = h.invoked]
       IN disp' = IF h.throws
                  THEN handlerCatch(called, h.message)
                  ELSE [called EXCEPT !.pc = "fetching",
                                      !.outbound = fetch(@, h.request)]
    /\ UNCHANGED <<proc, sessionVars>>

\* fetch resolves: request() throws or returns, and the handler returns
\* its result.
FetchResolves(response) ==
    /\ disp.pc = "fetching"
    /\ LET r == afterFetch(response)
           d == [disp EXCEPT !.response = response]
       IN disp' = IF r.throws THEN handlerCatch(d, r.message)
                  ELSE handlerReturn(d, r.data)
    /\ UNCHANGED <<proc, sessionVars>>

\* fetch rejects: the handler catches the error.
FetchRejects(message) ==
    /\ disp.pc = "fetching"
    /\ disp' = handlerCatch([disp EXCEPT !.response = Response(0, message)],
                            message)
    /\ UNCHANGED <<proc, sessionVars>>

\* A dispatcher serving an established session: the initialize request of
\* the session has been answered and no tools/call has been received.
DispatchStart ==
    /\ disp = IdleDisp
    /\ proc = RunningProc
    /\ stateless = FALSE
    /\ minted = {1}
    /\ servers = 1
    /\ transports = << [newTransport(1, 1) EXCEPT !.onclose = 1] >>
    /\ activeSessions = sessionsSet(<<>>, 1, 1)
    /\ reqs = [r \in Reqs |->
                  IF r = 1
                  THEN [IdleReq EXCEPT !.pc = "done", !.transport = 1,
                                       !.newSessionId = 1, !.status = 200,
                                       !.respSid = 1]
                  ELSE IdleReq]

NextDispatch ==
    \/ \E name \in ToolNames : \E args \in ArgBags(name) : CallTool(name, args)
    \/ \E response \in Responses : FetchResolves(response)
    \/ \E message \in NetworkErrors : FetchRejects(message)

SpecDispatch == DispatchStart /\ [][NextDispatch]_vars

\* ====================================================== claims: dispatcher

\* A tools/call request has been received.
Called == disp.pc # "idle"

\* The case of the switch the received name selects.
TheCase == toolCase(disp.name)

\* The received arguments pass the validation of the selected case.
ArgsPass == TheCase.validates => validate(TheCase.schema, disp.args).ok

\* C12: a dispatch of a known operation whose arguments pass validation
\* has issued exactly one outbound HTTP request, a dispatch of an unknown
\* operation or with arguments that fail validation has issued none, and no
\* dispatch ever issues more than one, whatever the remote call answers.
C12_OneOutboundRequest ==
    Called =>
        /\ Len(disp.outbound) <= 1
        /\ (TheCase.known /\ ArgsPass) => Len(disp.outbound) = 1
        /\ (~TheCase.known \/ ~ArgsPass) => Len(disp.outbound) = 0

\* A remote call that failed with a status outside 2xx has been answered
\* to the caller, and the dispatch issued one request.
C12_Witness ==
    /\ disp.pc = "done"
    /\ disp.response = Response(500, "{\"message\":\"boom\"}")
    /\ disp.isError
    /\ Len(disp.outbound) = 1

\* The text the handler returns for what the remote API answered.
RemoteText ==
    CASE disp.response = Response(200, "{\"result\":\"success\"}") ->
             "{\n  \"result\": \"success\"\n}"
      [] disp.response = Response(200, "{}") -> "{}"
      [] disp.response = Response(204, "") ->
             "Error: Unexpected end of JSON input"
      [] disp.response = Response(404, "{\"error\":{\"description\":\"Not found\"}}") ->
             "Error: Infomaniak API Error (404): Not found"
      [] disp.response = Response(400, "{\"error\":{\"description\":\"bad thing\"}}") ->
             "Error: Infomaniak API Error (400): bad thing"
      [] disp.response = Response(500, "{\"message\":\"boom\"}") ->
             "Error: Infomaniak API Error (500): boom"
      [] disp.response = Response(502, "Bad Gateway") ->
             "Error: Infomaniak API Error (502): Bad Gateway"
      [] disp.response = Response(400, "{}") ->
             "Error: Infomaniak API Error (400): {}"
      [] disp.response = Response(0, "fetch failed") ->
             "Error: fetch failed"

\* The remote call produced a payload.
RemoteSucceeds == disp.response.status = 200

\* C13: the tool-call handler never throws: an unknown operation, a
\* validation failure, a failed remote call and an exception inside the
\* gateway are each returned as a result whose text is "Error: " followed
\* by the failure message with isError true; a success is returned as the
\* JSON-formatted payload without the error flag; the session that carried
\* the call stays registered with its open channel.
C13_HandlerNeverThrows ==
    /\ ~disp.threw
    /\ hasSession(activeSessions, 1)
    /\ ~transports[getSession(activeSessions, 1)].closed
    /\ disp.pc = "done" =>
         /\ ~TheCase.known =>
               /\ disp.text = "Error: " \o "Unknown tool: " \o disp.name
               /\ disp.isError
         /\ (TheCase.known /\ ~ArgsPass) =>
               /\ disp.text = "Error: "
                      \o validate(TheCase.schema, disp.args).message
               /\ disp.isError
         /\ (TheCase.known /\ ArgsPass) =>
               /\ disp.text = RemoteText
               /\ disp.isError = ~RemoteSucceeds

\* A call whose remote request was answered 502 with a text that is no
\* JSON has returned an error result, and the session is still registered.
C13_Witness ==
    /\ disp.pc = "done"
    /\ disp.response = Response(502, "Bad Gateway")
    /\ disp.text = "Error: Infomaniak API Error (502): Bad Gateway"
    /\ disp.isError
    /\ ~disp.threw
    /\ hasSession(activeSessions, 1)

\* The names the tools array advertises.
Advertised == {tools[i].name : i \in 1 .. Len(tools)}

\* C14: a dispatch of a name that is not in the catalog ends with a failure
\* result whose text holds "Unknown tool" and the name; no argument
\* validation is attempted, no client method is invoked, no request is
\* issued and the handler does not throw.
C14_UnknownToolFails ==
    (Called /\ disp.name \notin Advertised) =>
        /\ disp.pc = "done"
        /\ disp.isError
        /\ \E before \in {"Error: "}, between \in {": "} :
               disp.text = before \o "Unknown tool" \o between \o disp.name
        /\ disp.validations = 0
        /\ disp.invoked = <<>>
        /\ disp.outbound = <<>>
        /\ ~disp.threw

\* The unknown name has been dispatched with arguments that hold a field.
C14_Witness ==
    /\ disp.pc = "done"
    /\ disp.name = UnknownName
    /\ disp.args # Undefined
    /\ disp.args[ExtraKey] = Str("EVIL")
    /\ disp.text = "Error: Unknown tool: infomaniak_format_disk"

\* The arguments of a known operation failed validation and the handler
\* has returned.
ValidationFailed == disp.pc = "done" /\ TheCase.known /\ ~ArgsPass

\* C15 as stated: when validation fails, the text delivered to the caller
\* is the message of validate with nothing added, removed or rewritten.
C15_TextIsValidatorMessage ==
    ValidationFailed =>
        disp.text = validate(TheCase.schema, disp.args).message

\* C15 amended: when validation fails, the text delivered to the caller is
\* "Error: " followed by the message of validate, unmodified, with isError
\* true; for infomaniak_get_account without account_id it is
\* "Error: Validation error: account_id: account_id is required".
C15_TextIsPrefixedValidatorMessage ==
    /\ ValidationFailed =>
         /\ disp.text = "Error: "
                \o validate(TheCase.schema, disp.args).message
         /\ disp.isError
    /\ (/\ disp.pc = "done"
        /\ disp.name = "infomaniak_get_account"
        /\ disp.args # Undefined
        /\ disp.args["account_id"] = Absent) =>
         disp.text
             = "Error: Validation error: account_id: account_id is required"

\* infomaniak_get_account has been dispatched with an object that has no
\* account_id and has failed.
C15_Witness ==
    /\ ValidationFailed
    /\ disp.name = "infomaniak_get_account"
    /\ disp.args # Undefined
    /\ disp.args["account_id"] = Absent
    /\ disp.isError

\* The received arguments without the field no schema declares.
DeclaredArgs ==
    IF disp.args = Undefined THEN Undefined
    ELSE With(disp.args, ExtraKey, Absent)

\* The members of the JSON body of the outbound request.
BodyMembers == disp.outbound[1].body.v

\* C16: an operation that takes arguments invokes its client method with
\* the values validate returned: these hold declared fields only, each with
\* the value the arguments gave it; an undeclared field of the arguments
\* does not make validation fail and does not reach the outbound request,
\* which is the request the same arguments without that field produce, and
\* every member of whose body is a validated value.
C16_OnlyValidatedValues ==
    (Called /\ TheCase.known /\ TheCase.validates) =>
        /\ ArgsPass = validate(TheCase.schema, DeclaredArgs).ok
        /\ ArgsPass =>
             /\ DOMAIN disp.validated \subseteq fieldNames(TheCase.schema)
             /\ \A k \in DOMAIN disp.validated :
                    disp.validated[k] = disp.args[k]
             /\ disp.outbound
                    = << handleToolCall(disp.name, DeclaredArgs).request >>
             /\ disp.outbound
                    = << clientCall(TheCase.method, disp.validated) >>
             /\ disp.outbound[1].body # Absent =>
                    /\ ExtraKey \notin DOMAIN BodyMembers
                    /\ disp.name # "infomaniak_api_call" =>
                         \A k \in DOMAIN BodyMembers :
                             BodyMembers[k] = disp.validated[k]
                    /\ disp.name = "infomaniak_api_call" =>
                         BodyMembers = disp.validated["body"].v

\* infomaniak_create_mailbox has been dispatched with valid arguments and
\* an undeclared field, and has issued its request.
C16_Witness ==
    /\ disp.pc = "fetching"
    /\ disp.name = "infomaniak_create_mailbox"
    /\ disp.args[ExtraKey] = Str("EVIL")
    /\ Len(disp.outbound) = 1
    /\ DOMAIN BodyMembers = {"mailbox_name", "password"}

\* The optional fields of the selected case that the arguments do not give.
AbsentOptionals ==
    {TheCase.schema[i].name : i \in
        {j \in 1 .. Len(TheCase.schema) :
            /\ TheCase.schema[j].optional
            /\ disp.args[TheCase.schema[j].name] = Absent}}

\* C17: infomaniak_create_dns_record with domain "example.com", source
\* "www", type "A" and target "1.2.3.4", without ttl and priority, issues
\* exactly one request: a POST to /1/domain/example.com/dns/record whose
\* JSON body holds exactly source, type and target; for every operation an
\* optional field that the arguments do not give is not a member of the
\* outbound body.
C17_CreateDnsRecordRoundTrip ==
    /\ (/\ Called
        /\ disp.name = "infomaniak_create_dns_record"
        /\ disp.args # Undefined
        /\ DeclaredArgs = [domain |-> Str("example.com"), source |-> Str("www"),
                           type |-> Str("A"), target |-> Str("1.2.3.4"),
                           ttl |-> Absent, priority |-> Absent,
                           extra |-> Absent]) =>
          disp.outbound
            = << [method |-> "POST",
                  url |-> BaseUrl \o "/1/domain/example.com/dns/record",
                  body |-> [t |-> "json",
                            v |-> [source |-> Str("www"), type |-> Str("A"),
                                   target |-> Str("1.2.3.4")]]] >>
    /\ (Called /\ TheCase.known /\ TheCase.validates /\ ArgsPass) =>
          \/ disp.outbound[1].body = Absent
          \/ AbsentOptionals \cap DOMAIN BodyMembers = {}

\* The record has been created without ttl and priority and the remote
\* API has answered.
C17_Witness ==
    /\ disp.pc = "done"
    /\ disp.name = "infomaniak_create_dns_record"
    /\ disp.args # Undefined
    /\ disp.args["ttl"] = Absent
    /\ disp.args["priority"] = Absent
    /\ ~disp.isError
    /\ disp.outbound[1].method = "POST"
    /\ DOMAIN BodyMembers = {"source", "type", "target"}

\* The labels of the switch.
CaseLabels == {cases[i].name : i \in 1 .. Len(cases)}

\* C18: the catalog and the dispatcher agree: the advertised names are the
\* case labels, no two cases call the same client method, and a dispatch of
\* an advertised name with valid arguments invokes the one client method of
\* its case, which is the method of no other name.
C18_CatalogMatchesDispatcher ==
    /\ Advertised = CaseLabels
    /\ \A i, j \in 1 .. Len(cases) :
           i # j => /\ cases[i].name # cases[j].name
                    /\ cases[i].method # cases[j].method
    /\ \A i, j \in 1 .. Len(tools) : i # j => tools[i].name # tools[j].name
    /\ (Called /\ disp.name \in Advertised) =>
           /\ TheCase.known
           /\ TheCase.name = disp.name
           /\ ArgsPass =>
                /\ Len(disp.invoked) = 1
                /\ \A i \in 1 .. Len(cases) :
                       cases[i].method = disp.invoked[1]
                           => cases[i].name = disp.name

\* The last tool of the catalog has been dispatched and has invoked the
\* generic client method.
C18_Witness ==
    /\ disp.pc = "fetching"
    /\ disp.name = tools[Len(tools)].name
    /\ disp.invoked = <<"call">>

\* The fields of a schema that are not optional.
requiredFields(schema) ==
    {schema[i].name : i \in {j \in 1 .. Len(schema) : ~schema[j].optional}}

\* The issues validate reports for the received arguments; the delivered
\* text is "Error: Validation error: " and then "<path>: <message>" for
\* each of them, joined by ", ".
Issues == safeParseIssues(TheCase.schema, disp.args)

\* C19: for every operation and every field it requires, a call in which
\* that field is absent fails with a text that holds "<field> is required":
\* one of the reported issues has that message.
C19_AbsentFieldIsNamedRequired ==
    (ValidationFailed /\ disp.args # Undefined) =>
        \A f \in requiredFields(TheCase.schema) :
            disp.args[f] = Absent =>
                /\ disp.text = "Error: Validation error: " \o joinErrors(Issues)
                /\ \E i \in 1 .. Len(Issues) :
                       Issues[i].message = f \o " is required"

\* The operations with bounded-integer fields, the fields and their bounds.
BoundedOperations ==
    {"infomaniak_create_dns_record", "infomaniak_update_dns_record"}
BoundedFields ==
    { [name |-> "ttl", lower |-> TtlMin, upper |-> TtlMax],
      [name |-> "priority", lower |-> PriorityMin, upper |-> PriorityMax] }

\* The arguments are valid when field k is left out of them.
ValidWithout(k) ==
    validate(TheCase.schema, With(disp.args, k, Absent)).ok

\* C20: in the create and the update DNS record operations, a ttl or
\* priority at its lower or upper bound is accepted and reaches the request
\* body unchanged; a value one below the lower or one above the upper
\* bound makes the call fail with a validation failure naming the bound and
\* issues no request; no value is replaced by another one.
C20_BoundsAcceptedBeyondRejected ==
    (Called /\ disp.name \in BoundedOperations /\ disp.args # Undefined) =>
        \A b \in BoundedFields :
            LET v == disp.args[b.name] IN
            /\ (v \in {Num(b.lower), Num(b.upper)} /\ ValidWithout(b.name)) =>
                 /\ ArgsPass
                 /\ disp.validated[b.name] = v
                 /\ BodyMembers[b.name] = v
            /\ v = Num(b.lower - 1) =>
                 /\ disp.pc = "done" /\ disp.isError /\ disp.outbound = <<>>
                 /\ \E i \in 1 .. Len(Issues) :
                      /\ Issues[i].path = b.name
                      /\ Issues[i].message
                           = "Number must be greater than or equal to "
                                 \o ToString(b.lower)
            /\ v = Num(b.upper + 1) =>
                 /\ disp.pc = "done" /\ disp.isError /\ disp.outbound = <<>>
                 /\ \E i \in 1 .. Len(Issues) :
                      /\ Issues[i].path = b.name
                      /\ Issues[i].message
                           = "Number must be less than or equal to "
                                 \o ToString(b.upper)
            /\ (v # Absent /\ ArgsPass) =>
                 /\ disp.validated[b.name] = v
                 /\ BodyMembers[b.name] = v

\* A record has been updated with the largest ttl and the smallest
\* priority, and both are in the body of the request.
C20_Witness ==
    /\ disp.pc = "fetching"
    /\ disp.name = "infomaniak_update_dns_record"
    /\ disp.args["ttl"] = Num(TtlMax)
    /\ disp.args["priority"] = Num(PriorityMin)
    /\ BodyMembers["ttl"] = Num(TtlMax)
    /\ BodyMembers["priority"] = Num(PriorityMin)

\* A record creation with a ttl one above the upper bound has failed.
C20_WitnessRejected ==
    /\ disp.pc = "done"
    /\ disp.name = "infomaniak_create_dns_record"
    /\ disp.args # Undefined
    /\ disp.args["ttl"] = Num(TtlMax + 1)
    /\ disp.isError
    /\ disp.outbound = <<>>

\* The positions of the fields of the selected case whose value in the
\* received arguments violates the field's constraints.
InvalidFields ==
    {j \in 1 .. Len(TheCase.schema) :
        fieldIssues(TheCase.schema[j],
                    disp.args[TheCase.schema[j].name]) # <<>>}

\* The first violation of the field at position j.
FirstViolation(j) ==
    fieldIssues(TheCase.schema[j], disp.args[TheCase.schema[j].name])[1]

\* C21 as stated: when the arguments violate the constraints of several
\* fields, the failure message holds only the first violation of the first
\* invalid field in declaration order.
C21_ReportsFirstViolationOnly ==
    (ValidationFailed /\ disp.args # Undefined) =>
        disp.text = "Error: Validation error: "
                        \o Issues[1].path \o ": " \o Issues[1].message

\* C21 amended: the failure message aggregates the violations of all the
\* invalid fields: it holds one "<path>: <message>" per reported issue,
\* joined by ", "; every invalid field has its first violation among them
\* and the fields appear in declaration order; infomaniak_get_domain
\* without account_id and domain fails with
\* "Validation error: account_id: Required, domain: Required".
C21_ReportsAllViolations ==
    (ValidationFailed /\ disp.args # Undefined) =>
        /\ disp.text = "Error: Validation error: " \o joinErrors(Issues)
        /\ Len(Issues) >= Cardinality(InvalidFields)
        /\ \A j \in InvalidFields :
               \E i \in 1 .. Len(Issues) : Issues[i] = FirstViolation(j)
        /\ \A j, k \in InvalidFields :
               j < k => \E i, l \in 1 .. Len(Issues) :
                            /\ i < l
                            /\ Issues[i] = FirstViolation(j)
                            /\ Issues[l] = FirstViolation(k)
        /\ (/\ disp.name = "infomaniak_get_domain"
            /\ disp.args["account_id"] = Absent
            /\ disp.args["domain"] = Absent) =>
               disp.text = "Error: Validation error: "
                              \o "account_id: Required, domain: Required"

\* infomaniak_get_domain has been dispatched without its two fields and
\* has failed with two issues.
C21_Witness ==
    /\ ValidationFailed
    /\ disp.args # Undefined
    /\ disp.name = "infomaniak_get_domain"
    /\ disp.args["account_id"] = Absent
    /\ disp.args["domain"] = Absent
    /\ Len(Issues) = 2

\* C22: for every schema and every argument bag that satisfies it, the data
\* validate returns hold each declared field that was present with exactly
\* the value the bag gave it, and hold no optional field that was absent.
C22_ValidatedEqualsInput ==
    (Called /\ TheCase.known /\ TheCase.validates /\ ArgsPass) =>
        \A j \in 1 .. Len(TheCase.schema) :
            LET k == TheCase.schema[j].name IN
            /\ disp.args[k] # Absent =>
                  /\ k \in DOMAIN disp.validated
                  /\ disp.validated[k] = disp.args[k]
            /\ disp.args[k] = Absent =>
                  /\ TheCase.schema[j].optional
                  /\ k \notin DOMAIN disp.validated

\* A partial update of a DNS record: ttl is given and kept, source, type,
\* target and priority are absent from the arguments and from the data.
C22_Witness ==
    /\ disp.pc = "fetching"
    /\ disp.name = "infomaniak_update_dns_record"
    /\ disp.args["ttl"] = Num(TtlMin)
    /\ disp.validated["ttl"] = Num(TtlMin)
    /\ DOMAIN disp.validated = {"domain", "record_id", "ttl"}

\* The identifier fields.
IdFields ==
    {"account_id", "record_id", "mail_id", "mailbox_id", "hosting_id",
     "site_id", "database_id", "drive_id", "backup_id", "vps_id",
     "server_id", "certificate_id", "invoice_id"}

\* The fields of all the cases, with the schema they are declared in.
DeclaredFields ==
    UNION {{cases[i].schema[j] : j \in 1 .. Len(cases[i].schema)} :
              i \in 1 .. Len(cases)}

\* The issues reported for the field of that name.
IssuesOf(name) == {i \in 1 .. Len(Issues) : Issues[i].path = name}

\* C23: every identifier field is declared as a number that must be
\* greater than zero, and a call is accepted only when each identifier it
\* gives is such a number: zero, a negative number and a numeric string are
\* each rejected with a validation failure for that field and no request;
\* the string is reported as a string, not read as a number.
C23_IdentifiersArePositiveNumbers ==
    /\ \A name \in IdFields : \E f \in DeclaredFields : f.name = name
    /\ \A f \in DeclaredFields :
           f.name \in IdFields =>
               /\ f.kind = "number"
               /\ \E i \in 1 .. Len(f.checks) : f.checks[i].c = "positive"
    /\ (Called /\ TheCase.known /\ TheCase.validates
            /\ disp.args # Undefined) =>
           \A j \in 1 .. Len(TheCase.schema) :
               LET k == TheCase.schema[j].name
                   v == disp.args[k]
               IN (k \in IdFields /\ v # Absent) =>
                    /\ ArgsPass => (v.t = "number" /\ v.v > 0)
                    /\ v \in {Num(0), Num(0 - 1), Str("5")} =>
                         /\ disp.pc = "done"
                         /\ disp.isError
                         /\ disp.outbound = <<>>
                         /\ IssuesOf(k) # {}
                    /\ v = Str("5") =>
                         \A i \in IssuesOf(k) :
                             Issues[i].message
                                 = "Expected number, received string"

\* infomaniak_get_invoice has been dispatched with the numeric string "5"
\* as invoice_id and has failed.
C23_Witness ==
    /\ ValidationFailed
    /\ disp.args # Undefined
    /\ disp.name = "infomaniak_get_invoice"
    /\ disp.args["invoice_id"] = Str("5")
    /\ disp.args["account_id"] = Num(1)
    /\ disp.text = "Error: Validation error: "
                      \o "invoice_id: Expected number, received string"

\* The remote API has answered the request of the dispatch with a status
\* outside 2xx, and the handler has returned.
RemoteRejected ==
    /\ disp.pc = "done"
    /\ disp.outbound # <<>>
    /\ disp.response.status # 0
    /\ ~ok(disp.response)

\* The nested error description of a body that parses as JSON, undefined
\* when it has none.
NestedDescription(text) ==
    LET e == member(JSONparse(text).value, "error") IN
    IF e.t = "object" THEN member(e.v, "description") ELSE Absent

\* C24: for every response outside 2xx the gateway fails with the message
\* "Infomaniak API Error (<status>): <description>", the description being
\* the nested error description of a JSON body that has one and the raw
\* text of a body that is no JSON (status 400 with
\* {"error":{"description":"bad thing"}} gives "... (400): bad thing"); for
\* a 2xx response with a JSON body it returns the parsed body, which the
\* caller receives formatted and without error flag.
C24_GatewayErrorShape ==
    /\ RemoteRejected =>
         LET shape == "Infomaniak API Error ("
                          \o ToString(disp.response.status) \o "): "
             body  == disp.response.text
         IN
         /\ disp.isError
         /\ ~JSONparse(body).ok => disp.text = "Error: " \o shape \o body
         /\ (JSONparse(body).ok /\ NestedDescription(body) # Absent) =>
                disp.text = "Error: " \o shape \o NestedDescription(body).v
    /\ (disp.pc = "done" /\ disp.response
            = Response(400, "{\"error\":{\"description\":\"bad thing\"}}")) =>
         disp.text = "Error: Infomaniak API Error (400): bad thing"
    /\ (disp.pc = "done" /\ disp.response = Response(502, "Bad Gateway")) =>
         disp.text = "Error: Infomaniak API Error (502): Bad Gateway"
    /\ (disp.pc = "done" /\ disp.response
            = Response(200, "{\"result\":\"success\"}")) =>
         /\ disp.text = "{\n  \"result\": \"success\"\n}"
         /\ ~disp.isError

\* A request has been answered 400 with a nested error description.
C24_Witness ==
    /\ RemoteRejected
    /\ disp.response.status = 400
    /\ NestedDescription(disp.response.text) = Str("bad thing")
    /\ disp.text = "Error: Infomaniak API Error (400): bad thing"

\* =========================================================== process start

\* process.env.INFOMANIAK_API_TOKEN: unset, empty or a token.
TokenValues == {Absent, Str(""), Str("secret-token")}

\* The process before the module body of index.ts has run.
StartingProc(token) ==
    [pc |-> "start", token |-> token, client |-> FALSE, transport |-> FALSE,
     exitCode |-> None, stderr |-> <<>>]

\* if (!API_TOKEN)
tokenMissingNever(token) == FALSE
tokenMissing(token) == ~truthy(token)

\* The module body of index.ts up to the await in main(): without token the
\* two diagnostics and process.exit(1); with it the client, the server and
\* the stdio transport, suspended in server.connect.
ProcessStarts ==
    /\ proc.pc = "start"
    /\ proc' =
         IF tokenMissing(proc.token)
         THEN [proc EXCEPT
                 !.pc = "exited", !.exitCode = 1,
                 !.stderr = <<
                   "Error: INFOMANIAK_API_TOKEN environment variable is required",
                   "Get your API token from: https://manager.infomaniak.com/v3/ng/accounts/token/list" >>]
         ELSE [proc EXCEPT !.pc = "connecting", !.client = TRUE,
                           !.transport = TRUE]
    /\ UNCHANGED <<disp, sessionVars>>

\* server.connect(transport) has resolved: the server runs on stdio.
StdioConnected ==
    /\ proc.pc = "connecting"
    /\ proc' = [proc EXCEPT !.pc = "running",
                   !.stderr = Append(@, "Infomaniak MCP Server running on stdio")]
    /\ UNCHANGED <<disp, sessionVars>>

\* server.connect(transport) has rejected: main().catch exits with 1.
StdioConnectFails ==
    /\ proc.pc = "connecting"
    /\ proc' = [proc EXCEPT !.pc = "exited", !.exitCode = 1,
                   !.stderr = Append(@, "Fatal error:")]
    /\ UNCHANGED <<disp, sessionVars>>

\* The process serves requests.
Serving == proc.pc = "running"

\* A process started with any environment; it speaks stdio, so the HTTP
\* session adapter holds nothing.
ProcessInit ==
    /\ \E token \in TokenValues : proc = StartingProc(token)
    /\ disp = IdleDisp
    /\ stateless = FALSE
    /\ activeSessions = <<>>
    /\ transports = <<>>
    /\ servers = 0
    /\ minted = {}
    /\ reqs = [r \in Reqs |-> IdleReq]

NextProcess ==
    \/ ProcessStarts
    \/ StdioConnected
    \/ StdioConnectFails
    \/ Serving /\ \E name \in ToolNames :
                     \E args \in ArgBags(name) : CallTool(name, args)
    \/ Serving /\ \E response \in Responses : FetchResolves(response)
    \/ Serving /\ \E message \in NetworkErrors : FetchRejects(message)

SpecProcess == ProcessInit /\ [][NextProcess]_vars

\* C25: when INFOMANIAK_API_TOKEN is missing at process start, the process
\* exits with status 1 after naming the missing variable and where to get
\* it, before the client and any transport exist; in such a run no tool
\* call is ever dispatched and no outbound request is ever issued.
C25_MissingTokenExitsBeforeServing ==
    proc.token \in {Absent, Str("")} =>
        /\ proc.pc \in {"start", "exited"}
        /\ proc.pc = "exited" =>
             /\ proc.exitCode = 1
             /\ Len(proc.stderr) = 2
             /\ proc.stderr[1]
                  = "Error: INFOMANIAK_API_TOKEN environment variable is required"
        /\ ~proc.client
        /\ ~proc.transport
        /\ ~Called
        /\ disp.outbound = <<>>

\* The process has been started without the variable and has exited.
C25_Witness ==
    /\ proc.token = Absent
    /\ proc.pc = "exited"
    /\ proc.exitCode = 1
    /\ ~Called

\* ================================================ claims: session adapter

\* Request r moves in this step as a POST or GET that bears a registered
\* session identifier: it is routed to the channel, or its handling ends.
RoutedStep(r) ==
    /\ reqs'[r] # reqs[r]
    /\ reqs'[r].method \in {"POST", "GET"}
    /\ reqs'[r].sid # None
    /\ hasSession(activeSessions, reqs'[r].sid)

\* A termination request for the identifier is answered in this step.
TerminatedNow(id) ==
    \E r \in Reqs : /\ ArrivesNow(r)
                    /\ reqs'[r].method = "DELETE"
                    /\ reqs'[r].sid = id
                    /\ reqs'[r].status = 200

\* The channel closes in this step.
ClosesNow(t) == ~transports[t].closed /\ transports'[t].closed

\* C26: routing a POST or GET that bears a registered identifier, and the
\* end of its handling with or without error, leave the registry as it is;
\* an entry leaves the registry or changes only in a step that answers a
\* termination request for its identifier or closes its channel.
C26_RoutedRequestsKeepRegistry ==
    [][/\ \A r \in Reqs : RoutedStep(r) => activeSessions' = activeSessions
       /\ \A id \in DOMAIN activeSessions :
              (id \notin DOMAIN activeSessions'
                  \/ activeSessions'[id] # activeSessions[id])
              => (TerminatedNow(id) \/ ClosesNow(activeSessions[id]))
      ]_vars

\* A session has carried a POST that failed with 500 and an event stream
\* that was served, and is still registered with its open channel.
C26_Witness ==
    \E i \in Initializations : \E p, g \in Reqs :
        LET id == reqs[i].newSessionId IN
        /\ reqs[p].method = "POST" /\ reqs[p].sid = id
        /\ reqs[p].pc = "done" /\ reqs[p].status = 500
        /\ reqs[g].method = "GET" /\ reqs[g].sid = id
        /\ reqs[g].pc = "done" /\ reqs[g].status = 200
        /\ hasSession(activeSessions, id)
        /\ ~transports[getSession(activeSessions, id)].closed

\* The answered termination requests for the identifier.
Terminations(id) ==
    {r \in Reqs : /\ reqs[r].method = "DELETE"
                  /\ reqs[r].sid = id
                  /\ reqs[r].pc = "done"}

\* The initializations whose session has been stored: the close callback
\* is set together with the entry.
Stored ==
    {i \in Initializations : transports[reqs[i].transport].onclose # None}

\* C27: under every interleaving of the handlers and close callbacks, of
\* the termination requests for one identifier exactly one is answered 200
\* and every other one 404; once a session is terminated or its channel
\* has closed its identifier is absent; and every stored session that was
\* neither terminated nor closed is still registered with its own channel.
C27_RegistryMutationsDoNotRace ==
    /\ \A id \in minted :
         /\ Cardinality({r \in Terminations(id) : reqs[r].status = 200}) <= 1
         /\ \A r \in Terminations(id) : reqs[r].status \in {200, 404}
         /\ (\E r \in Terminations(id) : reqs[r].status = 200)
                => ~hasSession(activeSessions, id)
    /\ \A i \in Stored :
         LET id == reqs[i].newSessionId
             t  == reqs[i].transport
         IN /\ transports[t].closed => ~hasSession(activeSessions, id)
            /\ (~transports[t].closed
                    /\ \A r \in Terminations(id) : reqs[r].status # 200)
                 => /\ hasSession(activeSessions, id)
                    /\ getSession(activeSessions, id) = t

\* Two termination requests for one session have been answered, the first
\* with 200 and the second with 404; the channel is closed, the identifier
\* is absent.
C27_Witness ==
    \E i \in Initializations : \E r, q \in Reqs :
        LET id == reqs[i].newSessionId IN
        /\ r < q
        /\ {r, q} \subseteq Terminations(id)
        /\ reqs[r].status = 200
        /\ reqs[q].status = 404
        /\ transports[reqs[i].transport].closed
        /\ ~hasSession(activeSessions, id)


\* The keys the registry gains in this step.
InsertedNow == DOMAIN activeSessions' \ DOMAIN activeSessions

\* The initialization request r leaves server.connect in this step.
ConnectsNow(r) == reqs[r].pc = "connecting" /\ reqs'[r].pc = "handling"

\* C28: every key of the registry is an identifier the server minted, and
\* a key enters the registry only when an initialization request that bore
\* no session header leaves server.connect, as the identifier minted for
\* that request and bound to the transport created for it; the arrival of
\* a request never inserts the header value it bears.
C28_RegistryKeysAreMinted ==
    [][/\ DOMAIN activeSessions' \subseteq minted'
       /\ Bogus \notin DOMAIN activeSessions'
       /\ None \notin DOMAIN activeSessions'
       /\ \A id \in InsertedNow :
            \E r \in Reqs :
              /\ ConnectsNow(r)
              /\ reqs[r].method = "POST"
              /\ reqs[r].sid = None
              /\ isInitializeRequest(reqs[r].body)
              /\ reqs[r].newSessionId = id
              /\ id \in minted
              /\ activeSessions'[id] = reqs[r].transport
              /\ transports[reqs[r].transport].sessionIdGenerator = id
       /\ \A r \in Reqs :
            (ArrivesNow(r) /\ reqs'[r].sid # None)
                => reqs'[r].sid \notin InsertedNow
      ]_vars

\* A session is registered under its minted identifier, and an initialize
\* request that bore an identifier of the client's own has been refused
\* with 400; the registry holds the minted identifier only.
C28_Witness ==
    \E i \in Initializations : \E r \in Reqs :
        /\ DOMAIN activeSessions = {reqs[i].newSessionId}
        /\ reqs[r].method = "POST"
        /\ reqs[r].sid = Bogus
        /\ isInitializeRequest(reqs[r].body)
        /\ reqs[r].pc = "done"
        /\ reqs[r].status = 400


\* handleRequest rejects for request r in this step.
ThrowsNow(r) ==
    /\ reqs[r].pc = "handling"
    /\ reqs'[r].pc = "done"
    /\ reqs'[r].message = "error"

\* The initializations whose handling has thrown.
ThrownInitializations ==
    {i \in Initializations : reqs[i].pc = "done" /\ reqs[i].message = "error"}

\* C29: in stateful mode the session of an initialization request is in
\* the registry, bound to its transport, at the step that hands the request
\* to handleRequest; a step in which that handling throws leaves the
\* registry as it is and answers 500 with code -32603, or leaves the
\* response the transport had begun; and afterwards the identifier is
\* registered as long as no termination request for it was answered 200
\* and its channel has not closed.
C29_RegistrationSurvivesThrow ==
    [][/\ \A r \in Reqs :
            (~stateless /\ ConnectsNow(r))
                => /\ reqs[r].newSessionId \notin DOMAIN activeSessions
                   /\ hasSession(activeSessions', reqs[r].newSessionId)
                   /\ getSession(activeSessions', reqs[r].newSessionId)
                          = reqs[r].transport
       /\ \A r \in Initializations :
            ThrowsNow(r)
                => /\ activeSessions' = activeSessions
                   /\ reqs'[r].status \in {500, 200}
                   /\ reqs'[r].status = 500
                          <=> reqs'[r].code = InternalError
                   /\ reqs'[r].status = 200
                          => reqs'[r].respSid = reqs[r].newSessionId
       /\ \A i \in ThrownInitializations :
            LET id == reqs[i].newSessionId
                t  == reqs[i].transport
            IN (/\ ~stateless
                /\ ~transports'[t].closed
                /\ \A q \in Reqs :
                      ~(/\ reqs'[q].method = "DELETE"
                        /\ reqs'[q].sid = id
                        /\ reqs'[q].status = 200))
               => /\ hasSession(activeSessions', id)
                  /\ getSession(activeSessions', id) = t
      ]_vars

\* The handling of an initialization request has thrown before any header
\* was sent: the request was answered 500 with code -32603, and its
\* session is registered with its open channel and serves a later request.
C29_Witness ==
    \E i \in ThrownInitializations : \E p \in Reqs :
        LET id == reqs[i].newSessionId IN
        /\ ~stateless
        /\ reqs[i].status = 500
        /\ reqs[i].code = InternalError
        /\ hasSession(activeSessions, id)
        /\ ~transports[getSession(activeSessions, id)].closed
        /\ reqs[p].sid = id
        /\ reqs[p].method = "POST"
        /\ reqs[p].pc = "done"
        /\ reqs[p].status = 200


\* The answered requests of one method.
Answered(method) ==
    {r \in Reqs : reqs[r].method = method /\ reqs[r].pc = "done"}

\* C30: in stateless mode the registry is empty in every reachable state,
\* so the count that GET /mcp/sessions reports is 0, every answered GET
\* /mcp was rejected with 400 and every answered DELETE /mcp with 400 (no
\* identifier) or 404 (any identifier), whatever sessions were created.
C30_StatelessRegistryEmpty ==
    stateless =>
        /\ activeSessions = <<>>
        /\ DOMAIN activeSessions = {}
        /\ sessionsCount(activeSessions) = 0
        /\ \A t \in DOMAIN transports : transports[t].onclose = None
        /\ \A r \in Answered("GET") :
             /\ reqs[r].status = 400
             /\ reqs[r].code = InvalidRequest
        /\ \A r \in Answered("DELETE") :
             /\ reqs[r].status \in {400, 404}
             /\ reqs[r].status = 400 <=> reqs[r].sid = None
        /\ \A r \in Reqs : reqs[r].pc # "idle" /\ reqs[r].sid # None
                              => reqs[r].transport = None

\* In stateless mode an initialization was served and minted an
\* identifier; a GET and a DELETE that bore that identifier were rejected
\* with 400 and 404, and the registry is empty.
C30_Witness ==
    \E i \in Initializations : \E g \in Answered("GET") :
      \E d \in Answered("DELETE") :
        LET id == reqs[i].newSessionId IN
        /\ stateless
        /\ reqs[i].pc = "done" /\ reqs[i].status = 200
        /\ reqs[g].sid = id /\ reqs[g].status = 400
        /\ reqs[d].sid = id /\ reqs[d].status = 404
        /\ sessionsCount(activeSessions) = 0

====
